---- MODULE Spec2Model ----
(***************************************************************************)
(* Petrol-station management front end: the business-day utilities         *)
(* (lib/constants.js), the analytics aggregation (Analytics.jsx) and the   *)
(* dashboard's HPCL credit card (Dashboard.jsx), as state machines.        *)
(*                                                                         *)
(* Calendar dates of records and ranges are day numbers (ISO date strings  *)
(* compare and parse in day order); wall-clock timestamps are JavaScript   *)
(* Date objects in local time: a record of year, month (0..11, as          *)
(* getMonth() gives it), date, hours, minutes, seconds and milliseconds.   *)
(***************************************************************************)
EXTENDS Integers, Sequences, FiniteSets, TLC

VARIABLES
    now,              \* the local wall clock read by new Date()
    timezone,         \* the browser's offset from UTC, in minutes east
    businessDay,      \* result of getCurrentBusinessDay(), or Null
    nightShift,       \* result of isNightShiftTime(), or Null
    businessDayInfo,  \* result of formatBusinessDayInfo(businessDay), or Null
    store,            \* daily-consolidation records held by the records store
    procurementStore, \* procurement records held by the records store
    page,             \* the mounted route: "daily-entry", "procurement", "analytics", "dashboard"
    analyticsRange,   \* Analytics: dateRange state {start, end}
    analyticsData,    \* Analytics: analyticsData state
    appRange,         \* App: dateRange state {startDate, endDate}
    dashboardData,    \* Dashboard: dashboardData state
    formData,         \* DailyEntry: formData state
    procurementFormData, \* ProcurementEntry: formData state
    editing,          \* AllDataView: editingDailyEntry / editingProcurementEntry, or Null
    editFormData,     \* AllDataView: editFormData state
    requestBody,      \* the body of the POST or PUT the last step sent, or Null
    ledger,           \* HPCLLedger: ledgerData, filteredData and the filter states
    chat,             \* AIChat: messages, inputMessage, loading and the request in flight
    inFlight          \* Dashboard: the calls of fetchDashboardData still awaiting responses

vars == <<now, timezone, businessDay, nightShift, businessDayInfo, store, procurementStore,
          page, analyticsRange, analyticsData, appRange, dashboardData,
          formData, procurementFormData, editing, editFormData, requestBody,
          ledger, chat, inFlight>>

clockVars == <<now, timezone, businessDay, nightShift, businessDayInfo>>
storeVars == <<store, procurementStore>>
analyticsVars == <<analyticsRange, analyticsData>>
dashboardVars == <<appRange, dashboardData>>
formVars == <<formData, procurementFormData, editing, editFormData, requestBody>>
componentVars == <<ledger, chat, inFlight>>

\* A value that may be null is a sequence: empty for null, else its one value.
Null == <<>>
Some(v) == <<v>>
Val(o) == o[1]

(***************************************************************************)
(* JavaScript Date, local time.                                            *)
(***************************************************************************)
IsLeapYear(y) == (y % 4 = 0 /\ y % 100 # 0) \/ y % 400 = 0

\* m is a 0-based month, as in Date.getMonth()
DaysInMonth(y, m) ==
    IF m = 1 THEN (IF IsLeapYear(y) THEN 29 ELSE 28)
    ELSE IF m \in {3, 5, 8, 10} THEN 30 ELSE 31

\* new Date(year, month, date, hours, minutes): the remaining fields are 0
NewDate(y, m, d, h, mi) ==
    [year |-> y, month |-> m, date |-> d, hours |-> h, minutes |-> mi,
     seconds |-> 0, ms |-> 0]

\* Date.prototype.setDate(d): a day of 0 or below rolls into the previous
\* month, a day past the month's end rolls into the next one (one month of
\* overflow is all the callers produce: getDate() - 1 and getDate() + 1).
SetDate(dt, d) ==
    IF d < 1 THEN
        LET pm == IF dt.month = 0 THEN 11 ELSE dt.month - 1
            py == IF dt.month = 0 THEN dt.year - 1 ELSE dt.year
        IN  [dt EXCEPT !.year = py, !.month = pm, !.date = DaysInMonth(py, pm) + d]
    ELSE IF d > DaysInMonth(dt.year, dt.month) THEN
        LET nm == IF dt.month = 11 THEN 0 ELSE dt.month + 1
            ny == IF dt.month = 11 THEN dt.year + 1 ELSE dt.year
        IN  [dt EXCEPT !.year = ny, !.month = nm,
                       !.date = d - DaysInMonth(dt.year, dt.month)]
    ELSE [dt EXCEPT !.date = d]

\* Date.prototype.setHours(h, mi, s, ms)
SetHours(dt, h, mi, s, msec) ==
    [dt EXCEPT !.hours = h, !.minutes = mi, !.seconds = s, !.ms = msec]

\* toLocaleDateString('en-IN'): day/month/year, the month 1-based
ToLocaleDateString(dt) == <<dt.date, dt.month + 1, dt.year>>

\* toLocaleString('en-IN'): the date, then the time on a 12-hour clock
ToLocaleString(dt) ==
    <<ToLocaleDateString(dt),
      <<IF dt.hours % 12 = 0 THEN 12 ELSE dt.hours % 12, dt.minutes, dt.seconds,
        IF dt.hours < 12 THEN "am" ELSE "pm">> >>

(***************************************************************************)
(* The calendar, counted independently of Date's own arithmetic: the       *)
(* number of a day is the count of days from 1 January of year 0 of the    *)
(* proleptic Gregorian calendar.                                           *)
(***************************************************************************)
LeapYearsBefore(y) == ((y - 1) \div 4) - ((y - 1) \div 100) + ((y - 1) \div 400)

DaysBeforeMonth(y, m) ==
    <<0, 31, 59, 90, 120, 151, 181, 212, 243, 273, 304, 334>>[m + 1]
      + (IF m > 1 /\ IsLeapYear(y) THEN 1 ELSE 0)

DayNumber(y, m, d) == 365 * y + LeapYearsBefore(y) + DaysBeforeMonth(y, m) + d

DayOf(dt) == DayNumber(dt.year, dt.month, dt.date)

MsOfDay(dt) == ((dt.hours * 60 + dt.minutes) * 60 + dt.seconds) * 1000 + dt.ms

IsCalendarDate(dt) ==
    /\ dt.month \in 0..11
    /\ dt.date \in 1..DaysInMonth(dt.year, dt.month)

IsMidnight(dt) == dt.hours = 0 /\ dt.minutes = 0 /\ dt.seconds = 0 /\ dt.ms = 0

\* 08:30:00.000 and 20:30:00.000 as milliseconds of the day
HalfPastEight == ((8 * 60 + 30) * 60) * 1000
HalfPastTwenty == ((20 * 60 + 30) * 60) * 1000

(***************************************************************************)
(* lib/constants.js: business-day utilities.                               *)
(***************************************************************************)
businessDayStartHour == 8
businessDayStartMinute == 30
nightStartHour == 20
nightStartMinute == 30
dayStartHour == 8
dayStartMinute == 30

getBusinessDayFromDateTime_BySecond(dt) ==
    IF dt.hours > businessDayStartHour
         \/ (dt.hours = businessDayStartHour /\ dt.minutes > businessDayStartMinute)
         \/ (dt.hours = businessDayStartHour /\ dt.minutes = businessDayStartMinute
               /\ dt.seconds > 0)
    THEN NewDate(dt.year, dt.month, dt.date, 0, 0)
    ELSE LET prevDay == SetDate(dt, dt.date - 1)
         IN  NewDate(prevDay.year, prevDay.month, prevDay.date, 0, 0)

getBusinessDayFromDateTime_StrictMinute(dt) ==
    IF dt.hours > businessDayStartHour
         \/ (dt.hours = businessDayStartHour /\ dt.minutes > businessDayStartMinute)
    THEN NewDate(dt.year, dt.month, dt.date, 0, 0)
    ELSE LET prevDay == SetDate(dt, dt.date - 1)
         IN  NewDate(prevDay.year, prevDay.month, prevDay.date, 0, 0)

getBusinessDayFromDateTime(dt) ==
    IF dt.hours > businessDayStartHour
         \/ (dt.hours = businessDayStartHour /\ dt.minutes >= businessDayStartMinute)
    THEN NewDate(dt.year, dt.month, dt.date, 0, 0)
    ELSE LET prevDay == SetDate(dt, dt.date - 1)
         IN  NewDate(prevDay.year, prevDay.month, prevDay.date, 0, 0)

isNightShiftTime_StrictHour(t) ==
    (t.hours > nightStartHour)
    \/ (t.hours < dayStartHour
          \/ (t.hours = dayStartHour /\ t.minutes < dayStartMinute))

\* isNightShiftTime() reads the clock itself; t is that reading
isNightShiftTime(t) ==
    (t.hours > nightStartHour
       \/ (t.hours = nightStartHour /\ t.minutes >= nightStartMinute))
    \/ (t.hours < dayStartHour
          \/ (t.hours = dayStartHour /\ t.minutes < dayStartMinute))

formatBusinessDayInfo_SameDayEnd(businessDate) ==
    LET startDateTime == SetHours(businessDate, 8, 30, 0, 0)
        endDateTime == SetHours(businessDate, 8, 30, 0, 0)
    IN  [businessDate |-> ToLocaleDateString(businessDate),
         startTime |-> ToLocaleString(startDateTime),
         endTime |-> ToLocaleString(endDateTime),
         dayShiftPeriod |->
             <<ToLocaleDateString(businessDate), "8:30 AM", "8:30 PM">>,
         nightShiftPeriod |->
             <<ToLocaleDateString(businessDate), "8:30 PM",
               ToLocaleDateString(endDateTime), "8:30 AM">>]

formatBusinessDayInfo(businessDate) ==
    LET startDateTime == SetHours(businessDate, 8, 30, 0, 0)
        endDateTime ==
            SetHours(SetDate(businessDate, businessDate.date + 1), 8, 30, 0, 0)
    IN  [businessDate |-> ToLocaleDateString(businessDate),
         startTime |-> ToLocaleString(startDateTime),
         endTime |-> ToLocaleString(endDateTime),
         dayShiftPeriod |->
             <<ToLocaleDateString(businessDate), "8:30 AM", "8:30 PM">>,
         nightShiftPeriod |->
             <<ToLocaleDateString(businessDate), "8:30 PM",
               ToLocaleDateString(endDateTime), "8:30 AM">>]

(***************************************************************************)
(* The clock readings the business-day functions are exercised on: both    *)
(* sides of 08:30 and 20:30, month ends, a leap day and the turn of the    *)
(* year.                                                                   *)
(***************************************************************************)
ClockYears == {2024, 2025}
ClockMonths == {0, 1, 2, 11}
ClockDates == {1, 28, 29, 30, 31}
ClockHours == {0, 7, 8, 9, 19, 20, 21, 23}
ClockMinutes == {0, 29, 30, 31, 59}
ClockSeconds == {0, 59}
ClockMillis == {0, 999}

Timestamps ==
    {[year |-> y, month |-> m, date |-> d, hours |-> h, minutes |-> mi,
      seconds |-> s, ms |-> x] :
        y \in ClockYears, m \in ClockMonths,
        d \in ClockDates,
        h \in ClockHours, mi \in ClockMinutes, s \in ClockSeconds,
        x \in ClockMillis}

ValidTimestamps == {t \in Timestamps : t.date <= DaysInMonth(t.year, t.month)}

\* getCurrentBusinessDay(): getBusinessDayFromDateTime(new Date())
GetCurrentBusinessDay ==
    /\ businessDay' = Some(getBusinessDayFromDateTime(now))
    /\ UNCHANGED <<now, timezone, nightShift, businessDayInfo, storeVars, page,
                   analyticsVars, dashboardVars, formVars, componentVars>>

\* isNightShiftTime()
IsNightShiftTime ==
    /\ nightShift' = Some(isNightShiftTime(now))
    /\ UNCHANGED <<now, timezone, businessDay, businessDayInfo, storeVars, page,
                   analyticsVars, dashboardVars, formVars, componentVars>>

\* formatBusinessDayInfo(getCurrentBusinessDay()), as the dashboard header calls it
FormatBusinessDayInfo ==
    /\ businessDay # Null
    /\ businessDayInfo' = Some(formatBusinessDayInfo(Val(businessDay)))
    /\ UNCHANGED <<now, timezone, businessDay, nightShift, storeVars, page,
                   analyticsVars, dashboardVars, formVars, componentVars>>

(***************************************************************************)
(* Arrays.                                                                 *)
(***************************************************************************)
\* Array.prototype.reduce((sum, entry) => sum + f(entry), 0)
RECURSIVE Reduce(_, _, _)
Reduce(f(_), seq, sum) ==
    IF seq = <<>> THEN sum ELSE Reduce(f, Tail(seq), sum + f(Head(seq)))

\* One step of a stable insertion: x goes behind every element that the
\* comparator does not order after it.
RECURSIVE InsertStable(_, _, _)
InsertStable(cmp(_, _), sorted, x) ==
    IF sorted = <<>> THEN <<x>>
    ELSE IF cmp(Head(sorted), x) <= 0
         THEN <<Head(sorted)>> \o InsertStable(cmp, Tail(sorted), x)
         ELSE <<x>> \o sorted

\* Array.prototype.sort(cmp): stable, ordered by the comparator's sign
RECURSIVE Sort(_, _)
Sort(cmp(_, _), seq) ==
    IF seq = <<>> THEN <<>>
    ELSE InsertStable(cmp, Sort(cmp, SubSeq(seq, 1, Len(seq) - 1)), seq[Len(seq)])

\* new Date(isoDate) as a number: milliseconds since the epoch
MsPerDay == 24 * 60 * 60 * 1000
DateValue(date) == date * MsPerDay

\* (a, b) => new Date(b.date) - new Date(a.date)
ByDateDescending(a, b) == DateValue(b.date) - DateValue(a.date)
\* (a, b) => new Date(a.date) - new Date(b.date)
ByDateAscending(a, b) == DateValue(a.date) - DateValue(b.date)

\* a number divided by a number, kept exact
Ratio(n, d) == [num |-> n, den |-> d]
Zero == Ratio(0, 1)

(***************************************************************************)
(* The records store (the API behind fetch): it answers a date-range       *)
(* query with the records whose date lies in the range.                    *)
(***************************************************************************)
\* GET /api/daily-consolidation?start_date=&end_date=
DailyConsolidationQuery(records, start, end) ==
    SelectSeq(records, LAMBDA r : start <= r.date /\ r.date <= end)

\* GET /api/procurement?start_date=&end_date=
ProcurementQuery(records, start, end) ==
    SelectSeq(records, LAMBDA r : start <= r.invoice_date /\ r.invoice_date <= end)

(***************************************************************************)
(* Analytics.jsx                                                           *)
(***************************************************************************)
InitialAnalyticsData ==
    [dailyEntries |-> <<>>,
     procurementEntries |-> <<>>,
     summary |-> [totalSales |-> 0, totalCollections |-> 0, totalProcurement |-> 0,
                  averageVariance |-> Zero,
                  latestHPCLCredit |-> [amount |-> 0, date |-> Null]]]

EntrySales_NoPower(entry) == entry.ms_amount + entry.hsd_amount

\* entry.ms_amount + entry.hsd_amount + entry.power_amount
EntrySales(entry) == entry.ms_amount + entry.hsd_amount + entry.power_amount

EntryCollections_NoHp(entry) ==
    entry.cash_collections + entry.card_collections + entry.paytm_collections

\* entry.cash_collections + entry.card_collections + entry.paytm_collections
\*   + entry.hp_transactions
EntryCollections(entry) ==
    entry.cash_collections + entry.card_collections + entry.paytm_collections
      + entry.hp_transactions

EntryTotalAmount(entry) == entry.total_amount

HasHPCLCredit_NonNegative(entry) == entry.total_outstanding >= 0

\* entry => entry.total_outstanding > 0
HasHPCLCredit(entry) == entry.total_outstanding > 0

latestHPCLCredit_Oldest(dailyEntries) ==
    LET entriesWithHPCLCredit ==
            Sort(ByDateAscending, SelectSeq(dailyEntries, HasHPCLCredit))
    IN  [amount |-> IF Len(entriesWithHPCLCredit) > 0
                    THEN entriesWithHPCLCredit[1].total_outstanding ELSE 0,
         date |-> IF Len(entriesWithHPCLCredit) > 0
                  THEN Some(entriesWithHPCLCredit[1].date) ELSE Null]

\* "Find latest HPCL Credit entry"
latestHPCLCredit(dailyEntries) ==
    LET entriesWithHPCLCredit ==
            Sort(ByDateDescending, SelectSeq(dailyEntries, HasHPCLCredit))
    IN  [amount |-> IF Len(entriesWithHPCLCredit) > 0
                    THEN entriesWithHPCLCredit[1].total_outstanding ELSE 0,
         date |-> IF Len(entriesWithHPCLCredit) > 0
                  THEN Some(entriesWithHPCLCredit[1].date) ELSE Null]

\* the summary fetchAnalyticsData computes from the two responses
Summary(dailyEntries, procurementEntries) ==
    LET totalSales == Reduce(EntrySales, dailyEntries, 0)
        totalCollections == Reduce(EntryCollections, dailyEntries, 0)
        totalProcurement == Reduce(EntryTotalAmount, procurementEntries, 0)
        averageVariance ==
            IF Len(dailyEntries) > 0
            THEN Ratio(totalSales - totalCollections, Len(dailyEntries))
            ELSE Zero
    IN  [totalSales |-> totalSales,
         totalCollections |-> totalCollections,
         totalProcurement |-> totalProcurement,
         averageVariance |-> averageVariance,
         latestHPCLCredit |-> latestHPCLCredit(dailyEntries)]

AfterLatestHPCLCredit_SortInPlace(dailyEntries) == Sort(ByDateDescending, dailyEntries)

\* dailyEntries once "Find latest HPCL Credit entry" has run on it: filter
\* returns a new array and the sort that follows orders that array, so
\* dailyEntries is as the response gave it
AfterLatestHPCLCredit(dailyEntries) == dailyEntries

FetchedAnalyticsData_StartOnly(range) ==
    LET dailyEntries == DailyConsolidationQuery(store, range.start, range.start)
        procurementEntries == ProcurementQuery(procurementStore, range.start, range.start)
    IN  [dailyEntries |-> dailyEntries,
         procurementEntries |-> procurementEntries,
         summary |-> Summary(dailyEntries, procurementEntries)]

\* fetchAnalyticsData with both responses successful: the state it sets
FetchedAnalyticsData(range) ==
    LET dailyEntries == DailyConsolidationQuery(store, range.start, range.end)
        procurementEntries == ProcurementQuery(procurementStore, range.start, range.end)
    IN  [dailyEntries |-> AfterLatestHPCLCredit(dailyEntries),
         procurementEntries |-> procurementEntries,
         summary |-> Summary(dailyEntries, procurementEntries)]

\* An object keyed by date is the sequence of its values in insertion
\* order (the order Object.entries and Object.values give for date keys),
\* each value carrying its key.
HasKey(obj, date) == \E i \in 1..Len(obj) : obj[i].date = date

AddToDate_Replace(data, entry) ==
    [data EXCEPT !.sales = EntrySales(entry),
                 !.collections = EntryCollections(entry),
                 !.variance = EntrySales(entry) - EntryCollections(entry)]

AddToDate_VarianceFlipped(data, entry) ==
    LET sales == EntrySales(entry)
        collections == EntryCollections(entry)
    IN  [data EXCEPT !.sales = @ + sales,
                     !.collections = @ + collections,
                     !.variance = @ + (collections - sales)]

\* dateWiseData[date].sales += sales, .collections += collections,
\* .variance += (sales - collections)
AddToDate(data, entry) ==
    LET sales == EntrySales(entry)
        collections == EntryCollections(entry)
    IN  [data EXCEPT !.sales = @ + sales,
                     !.collections = @ + collections,
                     !.variance = @ + (sales - collections)]

\* the body of getDateWiseSales' forEach
DateWiseStep(dateWiseData, entry) ==
    LET date == entry.date
        created ==
            IF ~HasKey(dateWiseData, date)
            THEN Append(dateWiseData,
                        [date |-> date, sales |-> 0, collections |-> 0, variance |-> 0])
            ELSE dateWiseData
    IN  [i \in 1..Len(created) |->
            IF created[i].date = date THEN AddToDate(created[i], entry) ELSE created[i]]

RECURSIVE ForEach(_, _, _)
\* Array.prototype.forEach with a body that updates one object
ForEach(step(_, _), seq, obj) ==
    IF seq = <<>> THEN obj ELSE ForEach(step, Tail(seq), step(obj, Head(seq)))

getDateWiseSales_InsertionOrder(dailyEntries) ==
    ForEach(DateWiseStep, dailyEntries, <<>>)

\* Object.entries(dateWiseData).map(...).sort((a, b) => new Date(a.date) -
\* new Date(b.date))
getDateWiseSales(dailyEntries) ==
    Sort(ByDateAscending, ForEach(DateWiseStep, dailyEntries, <<>>))

MarkShift_OtherAsNight(status, entry) ==
    IF entry.shift = "Day" THEN [status EXCEPT !.morning = TRUE]
    ELSE [status EXCEPT !.night = TRUE]

MarkShift_NightAsMorning(status, entry) ==
    IF entry.shift = "Day" THEN [status EXCEPT !.morning = TRUE]
    ELSE IF entry.shift = "Night" THEN [status EXCEPT !.morning = TRUE]
    ELSE status

\* if (entry.shift === 'Day') morning = true else if (entry.shift === 'Night') night = true
MarkShift(status, entry) ==
    IF entry.shift = "Day" THEN [status EXCEPT !.morning = TRUE]
    ELSE IF entry.shift = "Night" THEN [status EXCEPT !.night = TRUE]
    ELSE status

DateStatusStep_Overwrite(dateStatus, entry) ==
    LET date == entry.date
        fresh == MarkShift([date |-> date, morning |-> FALSE, night |-> FALSE], entry)
    IN  IF HasKey(dateStatus, date)
        THEN [i \in 1..Len(dateStatus) |->
                IF dateStatus[i].date = date THEN fresh ELSE dateStatus[i]]
        ELSE Append(dateStatus, fresh)

\* the body of getCompletionStatus' forEach
DateStatusStep(dateStatus, entry) ==
    LET date == entry.date
        created ==
            IF ~HasKey(dateStatus, date)
            THEN Append(dateStatus, [date |-> date, morning |-> FALSE, night |-> FALSE])
            ELSE dateStatus
    IN  [i \in 1..Len(created) |->
            IF created[i].date = date THEN MarkShift(created[i], entry) ELSE created[i]]

\* the dateStatus object getCompletionStatus builds
DateStatus(dailyEntries) == ForEach(DateStatusStep, dailyEntries, <<>>)

IsCompleteDay_Either(status) == status.morning \/ status.night

\* status => status.morning && status.night
IsCompleteDay(status) == status.morning /\ status.night

getCompletionStatus_NoGuard(dailyEntries) ==
    LET dateStatus == DateStatus(dailyEntries)
        totalDays == Len(dateStatus)
        completeDays == Len(SelectSeq(dateStatus, IsCompleteDay))
    IN  [totalDays |-> totalDays,
         completeDays |-> completeDays,
         completionRate |-> Ratio(completeDays * 100, totalDays)]

getCompletionStatus(dailyEntries) ==
    LET dateStatus == DateStatus(dailyEntries)
        totalDays == Len(dateStatus)
        completeDays == Len(SelectSeq(dateStatus, IsCompleteDay))
    IN  [totalDays |-> totalDays,
         completeDays |-> completeDays,
         completionRate |-> IF totalDays > 0
                            THEN Ratio(completeDays * 100, totalDays) ELSE Zero]

\* The completion status of a date as the dashboard's badge names it
\* (the summary API computes it): both shifts recorded, one, or none.
completion_status(morning, night) ==
    IF morning /\ night THEN "COMPLETE"
    ELSE IF morning \/ night THEN "PARTIAL"
    ELSE "EMPTY"

(***************************************************************************)
(* Bounds and inputs.                                                      *)
(***************************************************************************)
MaxDate == 3
MaxRecords == 2

Dates == 1..MaxDate

InitStore ==
    /\ store = <<>>
    /\ procurementStore = <<>>

InitAnalytics ==
    /\ analyticsRange = [start |-> 1, end |-> 1]
    /\ analyticsData = InitialAnalyticsData

StoreHasRoom == Len(store) + Len(procurementStore) < MaxRecords

\* DailyEntry.handleSubmit: POST /api/daily-consolidation adds the record
SubmitDailyEntry(entry) ==
    /\ page = "daily-entry"
    /\ StoreHasRoom
    /\ store' = Append(store, entry)
    /\ UNCHANGED <<clockVars, procurementStore, page, analyticsVars, dashboardVars, formVars, componentVars>>

\* ProcurementEntry.handleSubmit: POST /api/procurement adds the record
SubmitProcurement(entry) ==
    /\ page = "procurement"
    /\ StoreHasRoom
    /\ procurementStore' = Append(procurementStore, entry)
    /\ UNCHANGED <<clockVars, store, page, analyticsVars, dashboardVars, formVars, componentVars>>

\* Leaving /analytics unmounts the component; its state is gone.
Navigate(route) ==
    /\ route \in {"daily-entry", "procurement"}
    /\ page # route
    /\ page' = route
    /\ analyticsRange' = [start |-> 1, end |-> 1]
    /\ analyticsData' = InitialAnalyticsData
    /\ UNCHANGED <<clockVars, storeVars, dashboardVars, formVars, componentVars>>

\* Opening /analytics mounts the component: dateRange starts at (seven days
\* ago, selectedDate) and the effect runs fetchAnalyticsData.
OpenAnalytics(sevenDaysAgo) ==
    /\ page # "analytics"
    /\ page' = "analytics"
    /\ analyticsRange' = [start |-> sevenDaysAgo, end |-> appRange.endDate]
    /\ analyticsData' = FetchedAnalyticsData(analyticsRange')
    /\ UNCHANGED <<clockVars, storeVars, dashboardVars, formVars, componentVars>>

\* the From input: setDateRange, then the effect runs fetchAnalyticsData
SetAnalyticsStart(value) ==
    /\ page = "analytics"
    /\ analyticsRange' = [analyticsRange EXCEPT !.start = value]
    /\ analyticsData' = FetchedAnalyticsData(analyticsRange')
    /\ UNCHANGED <<clockVars, storeVars, page, dashboardVars, formVars, componentVars>>

\* the To input: setDateRange, then the effect runs fetchAnalyticsData
SetAnalyticsEnd(value) ==
    /\ page = "analytics"
    /\ analyticsRange' = [analyticsRange EXCEPT !.end = value]
    /\ analyticsData' = FetchedAnalyticsData(analyticsRange')
    /\ UNCHANGED <<clockVars, storeVars, page, dashboardVars, formVars, componentVars>>

(***************************************************************************)
(* The records store's dashboard endpoints.                                *)
(***************************************************************************)
FuelTypes == {"HSD", "MS", "POWER"}

\* a record reports the HPCL outstanding figure when the field is present
\* and non-zero
ReportsOutstanding(r) == r.total_outstanding # 0

\* resolveHpclOutstanding(records, targetDate): the most recent report at or
\* before targetDate, carried forward when it is older than targetDate
resolveHpclOutstanding(records, targetDate) ==
    LET reported ==
            Sort(ByDateDescending,
                 SelectSeq(records,
                           LAMBDA r : r.date <= targetDate /\ ReportsOutstanding(r)))
    IN  IF reported = <<>>
        THEN [amount |-> 0, entryDate |-> Null, isCarriedForward |-> FALSE]
        ELSE [amount |-> reported[1].total_outstanding,
              entryDate |-> Some(reported[1].date),
              isCarriedForward |-> reported[1].date < targetDate]

\* GET /api/dashboard?date=
HpclDashboardResponse(records, date, ok) ==
    IF ok
    THEN LET r == resolveHpclOutstanding(records, date)
         IN  [status |-> "success",
              dashboardData |->
                  Some([hpcl_credit_outstanding |-> r.amount,
                        entry_date |-> r.entryDate,
                        from_previous_date |-> r.isCarriedForward])]
    ELSE [status |-> "error", dashboardData |-> Null]

\* the per-fuel breakdown of the procurement of a range
ProcurementDetails(entries) ==
    [f \in FuelTypes |->
        LET ofFuel == SelectSeq(entries, LAMBDA e : e.fuel_type = f)
        IN  [quantity |-> Reduce(LAMBDA e : e.quantity, ofFuel, 0),
             amount |-> Reduce(LAMBDA e : e.total_amount, ofFuel, 0)]]

\* GET /api/dashboard/summary?start_date=&end_date=
DashboardSummaryResponse(records, procurement, start, end, ok) ==
    LET entries == DailyConsolidationQuery(records, start, end)
        bought == ProcurementQuery(procurement, start, end)
        ofEnd == SelectSeq(records, LAMBDA r : r.date = end)
        morning == \E i \in 1..Len(ofEnd) : ofEnd[i].shift = "Day"
        night == \E i \in 1..Len(ofEnd) : ofEnd[i].shift = "Night"
        sales == Reduce(LAMBDA e : e.ms_amount + e.hsd_amount + e.power_amount,
                        entries, 0)
        collections ==
            Reduce(LAMBDA e : e.cash_collections + e.card_collections
                                + e.paytm_collections + e.hp_transactions,
                   entries, 0)
    IN  [success |-> ok,
         data |-> [total_fuel_sales |-> sales,
                   total_collections |-> collections,
                   variance |-> sales - collections,
                   total_procurement |-> Reduce(LAMBDA e : e.total_amount, bought, 0),
                   procurement_details |-> ProcurementDetails(bought),
                   hpcl_credit_outstanding |->
                       resolveHpclOutstanding(records, end).amount,
                   completion_status |-> completion_status(morning, night),
                   entries_count |-> Len(ofEnd),
                   start_date |-> start,
                   end_date |-> end]]

(***************************************************************************)
(* Dashboard.jsx and App.jsx                                               *)
(***************************************************************************)
\* ISO date strings are day numbers counted from 31 July 2025: "2025-08-01" is 1
EpochDay == DayNumber(2025, 6, 31)

\* date.toISOString().split('T')[0]: the calendar date of the instant in UTC
ToISODate(dt) ==
    LET minutes == dt.hours * 60 + dt.minutes
    IN  DayOf(dt) + ((minutes - timezone + 2 * 1440) \div 1440) - 2 - EpochDay

\* useState's initial dashboardData; a field the object does not have yet
\* (undefined) is Null or FALSE here
InitialDashboardData(dateRange) ==
    [total_fuel_sales |-> 0,
     total_collections |-> 0,
     variance |-> 0,
     total_procurement |-> 0,
     procurement_details |-> [f \in FuelTypes |-> [quantity |-> 0, amount |-> 0]],
     hpcl_credit_outstanding |-> 0,
     hpcl_entry_date |-> Null,
     hpcl_from_previous_date |-> FALSE,
     completion_status |-> "EMPTY",
     entries_count |-> 0,
     start_date |-> dateRange.startDate,
     end_date |-> dateRange.endDate,
     current_business_day |-> Null,
     is_current_business_day |-> FALSE]

\* x || y for a value that may be null
OrElse(x, y) == IF x # Null THEN Val(x) ELSE y

HpclEntryDate_Requested(hpclResult, hpclDateToCheck) == hpclDateToCheck

\* hpclEntryDate: entry_date || hpclDateToCheck of a successful response
HpclEntryDate(hpclResult, hpclDateToCheck) ==
    IF hpclResult.status = "success" /\ hpclResult.dashboardData # Null
    THEN OrElse(Val(hpclResult.dashboardData).entry_date, hpclDateToCheck)
    ELSE hpclDateToCheck

IsFromPreviousDate_Never(hpclResult) == FALSE

\* isFromPreviousDate: from_previous_date || false of a successful response
IsFromPreviousDate(hpclResult) ==
    IF hpclResult.status = "success" /\ hpclResult.dashboardData # Null
    THEN Val(hpclResult.dashboardData).from_previous_date
    ELSE FALSE

\* the object fetchDashboardData hands to setDashboardData
FetchedDashboardData(dateRange, summaryResult, hpclResult) ==
    LET currentBusinessDay == getBusinessDayFromDateTime(now)
        businessDayStr == ToISODate(currentBusinessDay)
        hpclDateToCheck ==
            IF dateRange.endDate = businessDayStr THEN businessDayStr
            ELSE dateRange.endDate
        hpclOk == hpclResult.status = "success"
        d == summaryResult.data
    IN  [total_fuel_sales |-> d.total_fuel_sales,
         total_collections |-> d.total_collections,
         variance |-> d.variance,
         total_procurement |-> d.total_procurement,
         procurement_details |-> d.procurement_details,
         hpcl_credit_outstanding |->
             IF hpclOk THEN Val(hpclResult.dashboardData).hpcl_credit_outstanding
             ELSE d.hpcl_credit_outstanding,
         hpcl_entry_date |->
             IF hpclOk THEN Some(HpclEntryDate(hpclResult, hpclDateToCheck)) ELSE Null,
         hpcl_from_previous_date |->
             IF hpclOk THEN IsFromPreviousDate(hpclResult) ELSE FALSE,
         completion_status |-> d.completion_status,
         entries_count |-> d.entries_count,
         start_date |-> d.start_date,
         end_date |-> d.end_date,
         current_business_day |-> Some(businessDayStr),
         is_current_business_day |-> dateRange.endDate = businessDayStr]

\* fetchDashboardData: both requests answered, then setDashboardData. The
\* summary request succeeds (when it does not, the handler sets nothing and
\* dashboardData stays as it was); the HPCL request succeeds or not.
AfterFetchDashboardData(dateRange, current, hpclOk) ==
    LET summaryResult ==
            DashboardSummaryResponse(store, procurementStore, dateRange.startDate,
                                     dateRange.endDate, TRUE)
        businessDayStr == ToISODate(getBusinessDayFromDateTime(now))
        hpclDateToCheck ==
            IF dateRange.endDate = businessDayStr THEN businessDayStr
            ELSE dateRange.endDate
        hpclResult == HpclDashboardResponse(store, hpclDateToCheck, hpclOk)
    IN  IF summaryResult.success
        THEN FetchedDashboardData(dateRange, summaryResult, hpclResult)
        ELSE current

handleDateChange_NoClamp(prevRange, name, value) ==
    [prevRange EXCEPT ![name] = value]

\* App.handleDateChange: the updater passed to setDateRange
handleDateChange(prevRange, name, value) ==
    LET newRange == [prevRange EXCEPT ![name] = value]
    IN  IF name = "startDate" /\ newRange.endDate < newRange.startDate
        THEN [newRange EXCEPT !.endDate = newRange.startDate]
        ELSE IF name = "endDate" /\ newRange.endDate < newRange.startDate
        THEN [newRange EXCEPT !.startDate = newRange.endDate]
        ELSE newRange

\* new Date().toISOString().split('T')[0]
Today == ToISODate(now)

InitDashboard ==
    /\ appRange = [startDate |-> Today, endDate |-> Today]
    /\ dashboardData = InitialDashboardData(appRange)

\* Opening / mounts the dashboard; its effect runs fetchDashboardData.
OpenDashboard ==
    /\ page # "dashboard"
    /\ page' = "dashboard"
    /\ \E hpclOk \in BOOLEAN :
          dashboardData' =
              AfterFetchDashboardData(appRange, InitialDashboardData(appRange), hpclOk)
    /\ UNCHANGED <<clockVars, storeVars, analyticsVars, appRange, formVars, componentVars>>

\* Leaving / unmounts the dashboard; its state is gone.
LeaveDashboard(route) ==
    /\ page = "dashboard"
    /\ route \in {"daily-entry", "procurement"}
    /\ page' = route
    /\ dashboardData' = InitialDashboardData(appRange)
    /\ UNCHANGED <<clockVars, storeVars, analyticsVars, appRange, formVars, componentVars>>

\* A header date input changes; on the dashboard the effect on dateRange
\* runs fetchDashboardData, and the forms' effects on selectedDate take the
\* new date.
HandleDateChange(name, value) ==
    /\ appRange' = handleDateChange(appRange, name, value)
    /\ IF page = "dashboard"
       THEN \E hpclOk \in BOOLEAN :
               dashboardData' = AfterFetchDashboardData(appRange', dashboardData, hpclOk)
       ELSE dashboardData' = InitialDashboardData(appRange')
    /\ formData' = [formData EXCEPT !.date = appRange'.endDate]
    /\ procurementFormData' =
           [procurementFormData EXCEPT !.invoice_date = appRange'.endDate]
    /\ UNCHANGED <<clockVars, storeVars, analyticsVars, page,
                   editing, editFormData, requestBody, componentVars>>

(***************************************************************************)
(* JavaScript values, as the forms and the JSON records hold them: a       *)
(* number, NaN, a string (the sequence of its characters), null or         *)
(* undefined.                                                              *)
(***************************************************************************)
Number(n) == [type |-> "number", number |-> n, text |-> <<>>]
NaN == [type |-> "NaN", number |-> 0, text |-> <<>>]
String(chars) == [type |-> "string", number |-> 0, text |-> chars]
JsNull == [type |-> "null", number |-> 0, text |-> <<>>]
Undefined == [type |-> "undefined", number |-> 0, text |-> <<>>]

EmptyString == String(<<>>)

DigitChars == <<"0", "1", "2", "3", "4", "5", "6", "7", "8", "9">>
IsDigit(c) == \E i \in 1..10 : DigitChars[i] = c
DigitValue(c) == (CHOOSE i \in 1..10 : DigitChars[i] = c) - 1

\* the longest prefix of chars that is made of digits
RECURSIVE DigitPrefix(_)
DigitPrefix(chars) ==
    IF chars # <<>> /\ IsDigit(Head(chars))
    THEN <<Head(chars)>> \o DigitPrefix(Tail(chars))
    ELSE <<>>

\* the value of a sequence of digits, read after the value so far
RECURSIVE DigitsValue(_, _)
DigitsValue(digits, sofar) ==
    IF digits = <<>> THEN sofar
    ELSE DigitsValue(Tail(digits), sofar * 10 + DigitValue(Head(digits)))

\* the decimal digits of a natural number
RECURSIVE NatDigits(_)
NatDigits(n) ==
    IF n < 10 THEN <<DigitChars[n + 1]>>
    ELSE NatDigits(n \div 10) \o <<DigitChars[(n % 10) + 1]>>

\* String(value)
ToText(value) ==
    IF value.type = "string" THEN value.text
    ELSE IF value.type = "number"
         THEN IF value.number < 0 THEN <<"-">> \o NatDigits(0 - value.number)
              ELSE NatDigits(value.number)
    ELSE IF value.type = "NaN" THEN <<"N", "a", "N">>
    ELSE IF value.type = "null" THEN <<"n", "u", "l", "l">>
    ELSE <<"u", "n", "d", "e", "f", "i", "n", "e", "d">>

\* the number a text starts with: an optional sign and digits; NaN without
\* a digit
ParseNumberPrefix(chars) ==
    LET negative == chars # <<>> /\ Head(chars) = "-"
        digits == DigitPrefix(IF negative THEN Tail(chars) ELSE chars)
    IN  IF digits = <<>> THEN NaN
        ELSE IF negative THEN Number(0 - DigitsValue(digits, 0))
        ELSE Number(DigitsValue(digits, 0))

\* parseFloat(value): the number at the start of String(value)
parseFloat(value) == ParseNumberPrefix(ToText(value))

\* Number(value), the conversion the arithmetic operators apply
ToNumber(value) ==
    IF value.type = "number" \/ value.type = "NaN" THEN value
    ELSE IF value.type = "null" THEN Number(0)
    ELSE IF value.type = "undefined" THEN NaN
    ELSE IF value.text = <<>> THEN Number(0)
    ELSE IF ToText(ParseNumberPrefix(value.text)) = value.text
         THEN ParseNumberPrefix(value.text)
    ELSE NaN

\* !value
IsFalsy(value) ==
    \/ value.type \in {"NaN", "null", "undefined"}
    \/ value.type = "number" /\ value.number = 0
    \/ value.type = "string" /\ value.text = <<>>

\* value || 0
OrZero(value) == IF IsFalsy(value) THEN Number(0) ELSE value

\* a * b
Times(a, b) ==
    LET x == ToNumber(a)
        y == ToNumber(b)
    IN  IF x.type = "NaN" \/ y.type = "NaN" THEN NaN
        ELSE Number(x.number * y.number)

\* a + b: concatenation when either side is a string, else addition
Plus(a, b) ==
    IF a.type = "string" \/ b.type = "string"
    THEN String(ToText(a) \o ToText(b))
    ELSE LET x == ToNumber(a)
             y == ToNumber(b)
         IN  IF x.type = "NaN" \/ y.type = "NaN" THEN NaN
             ELSE Number(x.number + y.number)

\* typeof value === 'number' && !Number.isNaN(value)
IsNumber(value) == value.type = "number"

(***************************************************************************)
(* DailyEntry.jsx                                                          *)
(***************************************************************************)
\* the numericFields of handleSubmit
DailyNumericFields ==
    {"ms_rate", "ms_quantity", "ms_amount",
     "hsd_rate", "hsd_quantity", "hsd_amount",
     "power_rate", "power_quantity", "power_amount",
     "hsd1_tank", "hsd2_tank", "ms1_tank", "ms2_tank", "power1_tank",
     "total_outstanding", "hpcl_payment", "cash_collections", "card_collections",
     "paytm_collections", "hp_transactions"}

\* useState({...}): the form as the component mounts it
InitialFormData(selectedDate) ==
    [date |-> selectedDate, shift |-> "Day", manager |-> "",
     ms_rate |-> EmptyString, ms_quantity |-> EmptyString, ms_amount |-> Number(0),
     hsd_rate |-> EmptyString, hsd_quantity |-> EmptyString, hsd_amount |-> Number(0),
     power_rate |-> EmptyString, power_quantity |-> EmptyString,
     power_amount |-> Number(0),
     hsd1_tank |-> EmptyString, hsd2_tank |-> EmptyString, ms1_tank |-> EmptyString,
     ms2_tank |-> EmptyString, power1_tank |-> EmptyString,
     total_outstanding |-> EmptyString, hpcl_payment |-> EmptyString,
     cash_collections |-> EmptyString, card_collections |-> EmptyString,
     paytm_collections |-> EmptyString, hp_transactions |-> EmptyString,
     manager_notes |-> ""]

DailyEntry_handleInputChange_KeepAmounts(prev, field, value) ==
    [prev EXCEPT ![field] = value]

\* handleInputChange(field, value): the field is set and the three amounts
\* are computed again from the rates and quantities
DailyEntry_handleInputChange(prev, field, value) ==
    LET updated == [prev EXCEPT ![field] = value]
        ms_rate == OrZero(parseFloat(updated.ms_rate))
        ms_quantity == OrZero(parseFloat(updated.ms_quantity))
        hsd_rate == OrZero(parseFloat(updated.hsd_rate))
        hsd_quantity == OrZero(parseFloat(updated.hsd_quantity))
        power_rate == OrZero(parseFloat(updated.power_rate))
        power_quantity == OrZero(parseFloat(updated.power_quantity))
    IN  [updated EXCEPT !.ms_amount = Times(ms_rate, ms_quantity),
                        !.hsd_amount = Times(hsd_rate, hsd_quantity),
                        !.power_amount = Times(power_rate, power_quantity)]

DailyEntry_dataToSend_Raw(data) == data

\* handleSubmit: dataToSend, every numeric field as parseFloat(value) || 0
DailyEntry_dataToSend(data) ==
    [key \in DOMAIN data |->
        IF key \in DailyNumericFields THEN OrZero(parseFloat(data[key]))
        ELSE data[key]]

\* A number of a JSON body as the records store keeps it and hands it back;
\* what is not a number is kept as 0.
StoredNumber(value) == IF IsNumber(value) THEN value.number ELSE 0

\* POST /api/daily-consolidation: the record the store keeps for a body
StoredDailyEntry(body) ==
    [key \in DOMAIN body |->
        IF key \in DailyNumericFields THEN StoredNumber(body[key]) ELSE body[key]]

\* the response of GET /api/business-day-info: the shift of the current hour
suggested_shift == IF isNightShiftTime(now) THEN "Night" ELSE "Day"

(***************************************************************************)
(* Dashboard.jsx: ProcurementEntry                                         *)
(***************************************************************************)
ProcurementNumericFields == {"quantity", "rate", "total_amount"}

\* useState({...}): the form as the component mounts it
InitialProcurementFormData(selectedDate) ==
    [invoice_number |-> "", invoice_date |-> selectedDate, fuel_type |-> "HSD",
     quantity |-> EmptyString, rate |-> EmptyString, total_amount |-> Number(0),
     vehicle_number |-> "", supplier |-> "HPCL"]

ProcurementEntry_handleInputChange_OnRateOnly(prev, field, value) ==
    LET updated == [prev EXCEPT ![field] = value]
    IN  IF field = "rate"
        THEN [updated EXCEPT !.total_amount =
                 Times(OrZero(parseFloat(updated.rate)),
                       OrZero(parseFloat(updated.quantity)))]
        ELSE updated

\* handleInputChange(field, value): total_amount is computed again when the
\* rate or the quantity is the field set
ProcurementEntry_handleInputChange(prev, field, value) ==
    LET updated == [prev EXCEPT ![field] = value]
    IN  IF field = "rate" \/ field = "quantity"
        THEN [updated EXCEPT !.total_amount =
                 Times(OrZero(parseFloat(updated.rate)),
                       OrZero(parseFloat(updated.quantity)))]
        ELSE updated

\* handleSubmit: dataToSend
ProcurementEntry_dataToSend(data) ==
    [data EXCEPT !.quantity = OrZero(parseFloat(data.quantity)),
                 !.rate = OrZero(parseFloat(data.rate)),
                 !.total_amount = OrZero(parseFloat(data.total_amount))]

\* POST /api/procurement: the record the store keeps for a body
StoredProcurementEntry(body) ==
    [key \in DOMAIN body |->
        IF key \in ProcurementNumericFields THEN StoredNumber(body[key])
        ELSE body[key]]

(***************************************************************************)
(* HPCLLedger.jsx: AllDataView                                             *)
(***************************************************************************)
\* the numericFields of handleSaveEdit
EditNumericFields == DailyNumericFields \cup ProcurementNumericFields

\* A record of a JSON response as JavaScript holds it: its numbers as
\* number values.
FetchedRecord(record) ==
    [key \in DOMAIN record |->
        IF key \in EditNumericFields THEN Number(record[key]) ELSE record[key]]

\* the line of a daily entry that a field belongs to, as handleInputChange
\* tests it: the field is the line's rate or quantity
LineOf(field) ==
    IF field = "ms_rate" \/ field = "ms_quantity" THEN "ms"
    ELSE IF field = "hsd_rate" \/ field = "hsd_quantity" THEN "hsd"
    ELSE IF field = "power_rate" \/ field = "power_quantity" THEN "power"
    ELSE "none"

AllDataView_handleInputChange_QuantityOnly(prev, field, value, editsDaily) ==
    LET updated == [prev EXCEPT ![field] = value]
    IN  IF editsDaily
        THEN IF field = "ms_quantity"
             THEN [updated EXCEPT !.ms_amount =
                      Times(OrZero(parseFloat(updated.ms_rate)),
                            OrZero(parseFloat(value)))]
             ELSE IF field = "hsd_quantity"
             THEN [updated EXCEPT !.hsd_amount =
                      Times(OrZero(parseFloat(updated.hsd_rate)),
                            OrZero(parseFloat(value)))]
             ELSE IF field = "power_quantity"
             THEN [updated EXCEPT !.power_amount =
                      Times(OrZero(parseFloat(updated.power_rate)),
                            OrZero(parseFloat(value)))]
             ELSE updated
        ELSE IF field = "quantity"
             THEN [updated EXCEPT !.total_amount =
                      Times(OrZero(parseFloat(updated.rate)),
                            OrZero(parseFloat(value)))]
             ELSE updated

\* handleInputChange(field, value): the amount of the line whose rate or
\* quantity is set is computed again; in the procurement dialog total_amount
AllDataView_handleInputChange(prev, field, value, editsDaily) ==
    LET updated == [prev EXCEPT ![field] = value]
    IN  IF editsDaily
        THEN IF LineOf(field) = "ms"
             THEN [updated EXCEPT !.ms_amount =
                      Times(OrZero(parseFloat(IF field = "ms_rate"
                                              THEN value ELSE updated.ms_rate)),
                            OrZero(parseFloat(IF field = "ms_quantity"
                                              THEN value ELSE updated.ms_quantity)))]
             ELSE IF LineOf(field) = "hsd"
             THEN [updated EXCEPT !.hsd_amount =
                      Times(OrZero(parseFloat(IF field = "hsd_rate"
                                              THEN value ELSE updated.hsd_rate)),
                            OrZero(parseFloat(IF field = "hsd_quantity"
                                              THEN value ELSE updated.hsd_quantity)))]
             ELSE IF LineOf(field) = "power"
             THEN [updated EXCEPT !.power_amount =
                      Times(OrZero(parseFloat(IF field = "power_rate"
                                              THEN value ELSE updated.power_rate)),
                            OrZero(parseFloat(IF field = "power_quantity"
                                              THEN value ELSE updated.power_quantity)))]
             ELSE updated
        ELSE IF field = "rate" \/ field = "quantity"
             THEN [updated EXCEPT !.total_amount =
                      Times(OrZero(parseFloat(IF field = "rate"
                                              THEN value ELSE updated.rate)),
                            OrZero(parseFloat(IF field = "quantity"
                                              THEN value ELSE updated.quantity)))]
             ELSE updated

AllDataView_numericData_NoDefault(data) ==
    [key \in DOMAIN data |->
        IF key \in EditNumericFields THEN parseFloat(data[key]) ELSE data[key]]

\* handleSaveEdit: numericData, every numeric field as 0 when it is null,
\* '' or undefined and as parseFloat(value) otherwise
AllDataView_numericData(data) ==
    [key \in DOMAIN data |->
        IF key \in EditNumericFields
        THEN IF data[key] = JsNull \/ data[key] = EmptyString \/ data[key] = Undefined
             THEN Number(0)
             ELSE parseFloat(data[key])
        ELSE data[key]]

\* constants.js: TANK_CAPACITIES
TANK_CAPACITIES ==
    [hsd1_tank |-> 16000, hsd2_tank |-> 22000, ms1_tank |-> 9000,
     ms2_tank |-> 9000, power1_tank |-> 9000]

(***************************************************************************)
(* The forms: their states and steps.                                      *)
(***************************************************************************)
MaxFormRecords == 1

FormStoreHasRoom == Len(store) + Len(procurementStore) < MaxFormRecords

NotEditing == [dailyEntry |-> Null, procurementEntry |-> Null]

InitForms ==
    /\ formData = InitialFormData(appRange.endDate)
    /\ procurementFormData = InitialProcurementFormData(appRange.endDate)
    /\ editing = NotEditing
    /\ editFormData = <<>>
    /\ requestBody = Null

\* what the inputs of type number hand to the handlers: the empty string or
\* the text of a number
RateInputs == {EmptyString, String(<<"2">>)}
QuantityInputs == {String(<<"3">>)}
EditRateInputs == {EmptyString}
EditQuantityInputs == {String(<<"4">>)}
TankInputs == {String(<<"-", "5">>)}
EditTankInputs == {String(<<"1", "6", "0", "0", "1">>)}
ManagerNames == {"A"}

Lines == {"ms", "hsd", "power"}
RateFields == {"ms_rate", "hsd_rate", "power_rate"}
QuantityFields == {"ms_quantity", "hsd_quantity", "power_quantity"}
RateFieldOf(line) ==
    IF line = "ms" THEN "ms_rate" ELSE IF line = "hsd" THEN "hsd_rate" ELSE "power_rate"
QuantityFieldOf(line) ==
    IF line = "ms" THEN "ms_quantity"
    ELSE IF line = "hsd" THEN "hsd_quantity" ELSE "power_quantity"
AmountFieldOf(line) ==
    IF line = "ms" THEN "ms_amount"
    ELSE IF line = "hsd" THEN "hsd_amount" ELSE "power_amount"

\* the sessions followed fill in one fuel line of a form: a rate or quantity
\* is typed while the other lines are still empty
OtherLinesUntouched(data, field) ==
    \A line \in Lines \ {LineOf(field)} :
        /\ IsFalsy(data[RateFieldOf(line)])
        /\ IsFalsy(data[QuantityFieldOf(line)])

\* Opening /daily-entry mounts the form; its effect sets the suggested shift.
OpenDailyEntry ==
    /\ page # "daily-entry"
    /\ page' = "daily-entry"
    /\ formData' = [InitialFormData(appRange.endDate) EXCEPT !.shift = suggested_shift]
    /\ procurementFormData' = InitialProcurementFormData(appRange.endDate)
    /\ editing' = NotEditing
    /\ editFormData' = <<>>
    /\ requestBody' = Null
    /\ UNCHANGED <<clockVars, storeVars, analyticsVars, dashboardVars, componentVars>>

\* Opening /procurement mounts the procurement form.
OpenProcurement ==
    /\ page # "procurement"
    /\ page' = "procurement"
    /\ formData' = InitialFormData(appRange.endDate)
    /\ procurementFormData' = InitialProcurementFormData(appRange.endDate)
    /\ editing' = NotEditing
    /\ editFormData' = <<>>
    /\ requestBody' = Null
    /\ UNCHANGED <<clockVars, storeVars, analyticsVars, dashboardVars, componentVars>>

\* Opening /all-data mounts the tables of all records; no dialog is open.
OpenAllData ==
    /\ page # "all-data"
    /\ page' = "all-data"
    /\ formData' = InitialFormData(appRange.endDate)
    /\ procurementFormData' = InitialProcurementFormData(appRange.endDate)
    /\ editing' = NotEditing
    /\ editFormData' = <<>>
    /\ requestBody' = Null
    /\ UNCHANGED <<clockVars, storeVars, analyticsVars, dashboardVars, componentVars>>

\* DailyEntry: an input's onChange
DailyEntryInputChange(field, value) ==
    /\ page = "daily-entry"
    /\ OtherLinesUntouched(formData, field)
    /\ formData' = DailyEntry_handleInputChange(formData, field, value)
    /\ requestBody' = Null
    /\ UNCHANGED <<clockVars, storeVars, page, analyticsVars, dashboardVars,
                   procurementFormData, editing, editFormData, componentVars>>

\* DailyEntry.handleSubmit, once the required manager is filled in: the
\* body is posted and the store keeps its record; the form stays as it is
DailyEntrySubmit ==
    /\ page = "daily-entry"
    /\ formData.manager # ""
    /\ FormStoreHasRoom
    /\ requestBody' = Some(DailyEntry_dataToSend(formData))
    /\ store' = Append(store, StoredDailyEntry(Val(requestBody')))
    /\ UNCHANGED <<clockVars, procurementStore, page, analyticsVars, dashboardVars,
                   formData, procurementFormData, editing, editFormData, componentVars>>

\* ProcurementEntry: an input's onChange
ProcurementInputChange(field, value) ==
    /\ page = "procurement"
    /\ procurementFormData' =
           ProcurementEntry_handleInputChange(procurementFormData, field, value)
    /\ requestBody' = Null
    /\ UNCHANGED <<clockVars, storeVars, page, analyticsVars, dashboardVars,
                   formData, editing, editFormData, componentVars>>

\* ProcurementEntry.handleSubmit, once the required fields are filled in:
\* the body is posted, the store keeps its record and the form is reset
ProcurementSubmit ==
    /\ page = "procurement"
    /\ procurementFormData.invoice_number # ""
    /\ procurementFormData.vehicle_number # ""
    /\ procurementFormData.quantity # EmptyString
    /\ procurementFormData.rate # EmptyString
    /\ FormStoreHasRoom
    /\ requestBody' = Some(ProcurementEntry_dataToSend(procurementFormData))
    /\ procurementStore' =
           Append(procurementStore, StoredProcurementEntry(Val(requestBody')))
    /\ procurementFormData' = InitialProcurementFormData(appRange.endDate)
    /\ UNCHANGED <<clockVars, store, page, analyticsVars, dashboardVars,
                   formData, editing, editFormData, componentVars>>

\* AllDataView.handleEditDailyEntry(entry): the dialog opens on a copy
HandleEditDailyEntry(index) ==
    /\ page = "all-data"
    /\ editing = NotEditing
    /\ index \in 1..Len(store)
    /\ editing' = [NotEditing EXCEPT !.dailyEntry = Some(index)]
    /\ editFormData' = FetchedRecord(store[index])
    /\ requestBody' = Null
    /\ UNCHANGED <<clockVars, storeVars, page, analyticsVars, dashboardVars,
                   formData, procurementFormData, componentVars>>

\* AllDataView.handleEditProcurementEntry(entry)
HandleEditProcurementEntry(index) ==
    /\ page = "all-data"
    /\ editing = NotEditing
    /\ index \in 1..Len(procurementStore)
    /\ editing' = [NotEditing EXCEPT !.procurementEntry = Some(index)]
    /\ editFormData' = FetchedRecord(procurementStore[index])
    /\ requestBody' = Null
    /\ UNCHANGED <<clockVars, storeVars, page, analyticsVars, dashboardVars,
                   formData, procurementFormData, componentVars>>

\* AllDataView: an input's onChange in the open dialog
EditInputChange(field, value) ==
    /\ page = "all-data"
    /\ editing # NotEditing
    /\ field \in DOMAIN editFormData
    /\ editing.dailyEntry # Null => OtherLinesUntouched(editFormData, field)
    /\ editFormData' =
           AllDataView_handleInputChange(editFormData, field, value,
                                         editing.dailyEntry # Null)
    /\ requestBody' = Null
    /\ UNCHANGED <<clockVars, storeVars, page, analyticsVars, dashboardVars,
                   formData, procurementFormData, editing, componentVars>>

\* AllDataView.handleSaveEdit: the body is put, the store keeps its record in
\* place of the edited one and the dialog closes
HandleSaveEdit ==
    /\ page = "all-data"
    /\ editing # NotEditing
    /\ requestBody' = Some(AllDataView_numericData(editFormData))
    /\ IF editing.dailyEntry # Null
       THEN /\ store' = [store EXCEPT ![Val(editing.dailyEntry)] =
                            StoredDailyEntry(Val(requestBody'))]
            /\ UNCHANGED procurementStore
       ELSE /\ procurementStore' =
                   [procurementStore EXCEPT ![Val(editing.procurementEntry)] =
                       StoredProcurementEntry(Val(requestBody'))]
            /\ UNCHANGED store
    /\ editing' = NotEditing
    /\ UNCHANGED <<clockVars, page, analyticsVars, dashboardVars,
                   formData, procurementFormData, editFormData, componentVars>>

\* the dialog's Cancel button, or closing it
CancelEdit ==
    /\ page = "all-data"
    /\ editing # NotEditing
    /\ editing' = NotEditing
    /\ requestBody' = Null
    /\ UNCHANGED <<clockVars, storeVars, page, analyticsVars, dashboardVars,
                   formData, procurementFormData, editFormData, componentVars>>

(***************************************************************************)
(* HPCLLedger.jsx: the transaction ledger, its filters and its totals.     *)
(* Texts are sequences of characters.                                      *)
(***************************************************************************)
UpperCaseLetters == <<"A", "C", "D", "H", "K", "L", "P">>
LowerCaseLetters == <<"a", "c", "d", "h", "k", "l", "p">>

\* String.prototype.toLowerCase, over the letters the ledger's texts use
ToLowerCase(text) ==
    [i \in 1..Len(text) |->
        IF \E k \in 1..Len(UpperCaseLetters) : UpperCaseLetters[k] = text[i]
        THEN LowerCaseLetters[CHOOSE k \in 1..Len(UpperCaseLetters) :
                                  UpperCaseLetters[k] = text[i]]
        ELSE text[i]]

\* String.prototype.includes
Includes(text, part) ==
    \E i \in 0..(Len(text) - Len(part)) : SubSeq(text, i + 1, i + Len(part)) = part

DailyCollectionsText == <<"D", "a", "i", "l", "y", " ", "C", "o", "l", "l", "e", "c", "t", "i", "o", "n", "s">>
PaymentToHPCLText == <<"P", "a", "y", "m", "e", "n", "t", " ", "t", "o", " ", "H", "P", "C", "L">>
ProcurementText == <<"P", "r", "o", "c", "u", "r", "e", "m", "e", "n", "t">>

\* useState of the component as it mounts
InitialLedger ==
    [ledgerData |-> <<>>, filteredData |-> <<>>,
     searchTerm |-> <<>>, typeFilter |-> "all",
     amountFilter |-> [min |-> EmptyString, max |-> EmptyString],
     dateFilter |-> [start |-> Null, end |-> Null]]

\* the search filter's predicate: the term in the description or in the
\* vehicle number, both lower-cased
MatchesSearch(transaction, searchTerm) ==
    \/ Includes(ToLowerCase(transaction.description), ToLowerCase(searchTerm))
    \/ /\ transaction.details.vehicle_number # <<>>
       /\ Includes(ToLowerCase(transaction.details.vehicle_number),
                   ToLowerCase(searchTerm))

\* the type filter's switch
MatchesType(transaction, typeFilter) ==
    IF typeFilter = "collections"
    THEN Includes(transaction.description, DailyCollectionsText)
    ELSE IF typeFilter = "payments"
    THEN Includes(transaction.description, PaymentToHPCLText)
    ELSE IF typeFilter = "procurement"
    THEN Includes(transaction.description, ProcurementText)
    ELSE TRUE

\* the amount filter's predicate: debit || credit || 0 between min and max,
\* an empty min is 0 and an empty max is Infinity
MatchesAmount(transaction, amountFilter) ==
    LET amount == IF transaction.debit # 0 THEN transaction.debit
                  ELSE transaction.credit
        min == IF IsFalsy(amountFilter.min) THEN Number(0)
               ELSE parseFloat(amountFilter.min)
        max == parseFloat(amountFilter.max)
    IN  /\ min.type = "number" /\ amount >= min.number
        /\ \/ IsFalsy(amountFilter.max)
           \/ (max.type = "number" /\ amount <= max.number)

\* the date filter's predicate: an empty start is 1900-01-01, an empty end
\* is 2100-12-31
MatchesDate(transaction, dateFilter) ==
    /\ dateFilter.start = Null \/ transaction.date >= Val(dateFilter.start)
    /\ dateFilter.end = Null \/ transaction.date <= Val(dateFilter.end)

\* a filter is applied when its state is truthy
PassesFilters(transaction, l) ==
    /\ l.searchTerm = <<>> \/ MatchesSearch(transaction, l.searchTerm)
    /\ l.typeFilter = "all" \/ MatchesType(transaction, l.typeFilter)
    /\ (IsFalsy(l.amountFilter.min) /\ IsFalsy(l.amountFilter.max))
          \/ MatchesAmount(transaction, l.amountFilter)
    /\ (l.dateFilter.start = Null /\ l.dateFilter.end = Null)
          \/ MatchesDate(transaction, l.dateFilter)

\* the effect on [ledgerData, searchTerm, typeFilter, amountFilter,
\* dateFilter]: setFilteredData(filtered)
ApplyFilters(l) ==
    [l EXCEPT !.filteredData =
        SelectSeq(l.ledgerData, LAMBDA transaction : PassesFilters(transaction, l))]

DebitOf(transaction) == transaction.debit
CreditOf(transaction) == transaction.credit
TotalCollectionsOf(transaction) == transaction.total_collections

calculateFilteredTotals_OfFiltered(l) ==
    [totalDebit |-> Reduce(DebitOf, l.filteredData, 0),
     totalCredit |-> Reduce(CreditOf, l.filteredData, 0),
     totalCollections |-> Reduce(TotalCollectionsOf, l.filteredData, 0),
     count |-> Len(l.filteredData)]

\* calculateFilteredTotals: over filteredData, or over ledgerData when
\* filteredData is empty; x || 0 is x for a number
calculateFilteredTotals(l) ==
    LET dataToCalculate == IF Len(l.filteredData) > 0 THEN l.filteredData
                           ELSE l.ledgerData
    IN  [totalDebit |-> Reduce(DebitOf, dataToCalculate, 0),
         totalCredit |-> Reduce(CreditOf, dataToCalculate, 0),
         totalCollections |-> Reduce(TotalCollectionsOf, dataToCalculate, 0),
         count |-> Len(dataToCalculate)]

InitLedger == ledger = InitialLedger

\* Opening /hpcl-ledger mounts the component; fetchLedgerData is on its way.
OpenHpclLedger ==
    /\ page # "hpcl-ledger"
    /\ page' = "hpcl-ledger"
    /\ ledger' = ApplyFilters(InitialLedger)
    /\ UNCHANGED <<clockVars, storeVars, analyticsVars, dashboardVars, formVars,
                   chat, inFlight>>

\* fetchLedgerData's response: setLedgerData(data.transactions || []), then
\* the filter effect
LedgerLoaded(transactions) ==
    /\ page = "hpcl-ledger"
    /\ ledger' = ApplyFilters([ledger EXCEPT !.ledgerData = transactions])
    /\ UNCHANGED <<clockVars, storeVars, page, analyticsVars, dashboardVars, formVars,
                   chat, inFlight>>

\* a filter input changes, then the filter effect
SetSearchTerm(value) ==
    /\ page = "hpcl-ledger"
    /\ ledger' = ApplyFilters([ledger EXCEPT !.searchTerm = value])
    /\ UNCHANGED <<clockVars, storeVars, page, analyticsVars, dashboardVars, formVars,
                   chat, inFlight>>

SetTypeFilter(value) ==
    /\ page = "hpcl-ledger"
    /\ ledger' = ApplyFilters([ledger EXCEPT !.typeFilter = value])
    /\ UNCHANGED <<clockVars, storeVars, page, analyticsVars, dashboardVars, formVars,
                   chat, inFlight>>

SetAmountFilter(bound, value) ==
    /\ page = "hpcl-ledger"
    /\ ledger' = ApplyFilters([ledger EXCEPT !.amountFilter[bound] = value])
    /\ UNCHANGED <<clockVars, storeVars, page, analyticsVars, dashboardVars, formVars,
                   chat, inFlight>>

SetDateFilter(bound, value) ==
    /\ page = "hpcl-ledger"
    /\ ledger' = ApplyFilters([ledger EXCEPT !.dateFilter[bound] = value])
    /\ UNCHANGED <<clockVars, storeVars, page, analyticsVars, dashboardVars, formVars,
                   chat, inFlight>>

\* clearFilters, then the filter effect
ClearFilters ==
    /\ page = "hpcl-ledger"
    /\ ledger' = ApplyFilters([ledger EXCEPT
                                  !.searchTerm = <<>>, !.typeFilter = "all",
                                  !.amountFilter = [min |-> EmptyString,
                                                    max |-> EmptyString],
                                  !.dateFilter = [start |-> Null, end |-> Null]])
    /\ UNCHANGED <<clockVars, storeVars, page, analyticsVars, dashboardVars, formVars,
                   chat, inFlight>>

(***************************************************************************)
(* AIChat.jsx: the messages, the input and the request to the AI service.  *)
(***************************************************************************)
\* String.prototype.trim over the texts typed here: spaces at both ends go
RECURSIVE TrimStart(_)
TrimStart(text) ==
    IF text # <<>> /\ Head(text) = " " THEN TrimStart(Tail(text)) ELSE text

RECURSIVE TrimEnd(_)
TrimEnd(text) ==
    IF text # <<>> /\ text[Len(text)] = " "
    THEN TrimEnd(SubSeq(text, 1, Len(text) - 1))
    ELSE text

Trim(text) == TrimEnd(TrimStart(text))

\* useState of the component as it mounts: the greeting, an empty input
InitialChat ==
    [messages |-> <<[type |-> "ai", content |-> "greeting"]>>,
     inputMessage |-> <<>>,
     loading |-> FALSE,
     request |-> Null]

InitChat == chat = InitialChat

\* what the AI service answers: an answer, an error it names, or neither
ChatResults ==
    {[success |-> TRUE, response |-> "answer", error |-> ""],
     [success |-> FALSE, response |-> "", error |-> "quota"],
     [success |-> FALSE, response |-> "", error |-> ""]}

\* the message handleSendMessage appends for a result
AiMessageFor(result) ==
    IF result.success \/ result.response # ""
    THEN [type |-> "ai", content |-> result.response]
    ELSE IF result.error # ""
    THEN [type |-> "ai", content |-> "trouble connecting: " \o result.error]
    ELSE [type |-> "ai", content |-> "error while processing"]

\* the message of the catch block
ConnectionErrorMessage == [type |-> "ai", content |-> "trouble connecting"]

handleSendMessage_WhileLoading(c, presetMessage) ==
    LET messageContent ==
            IF presetMessage # <<>> THEN presetMessage ELSE Trim(c.inputMessage)
    IN  IF messageContent = <<>> THEN c
        ELSE [c EXCEPT
                 !.messages = Append(@, [type |-> "user", content |-> messageContent]),
                 !.inputMessage = IF presetMessage # <<>> THEN @ ELSE <<>>,
                 !.loading = TRUE,
                 !.request = Some(messageContent)]

\* handleSendMessage up to its await: nothing when the message is empty or
\* a request is in flight; else the user's message is appended, the input
\* cleared unless the message is a preset, loading set and the request sent
handleSendMessage(c, presetMessage) ==
    LET messageContent ==
            IF presetMessage # <<>> THEN presetMessage ELSE Trim(c.inputMessage)
    IN  IF messageContent = <<>> \/ c.loading THEN c
        ELSE [c EXCEPT
                 !.messages = Append(@, [type |-> "user", content |-> messageContent]),
                 !.inputMessage = IF presetMessage # <<>> THEN @ ELSE <<>>,
                 !.loading = TRUE,
                 !.request = Some(messageContent)]

\* handleSendMessage after its await: the AI message of the try or the
\* catch block, then finally setLoading(false)
handleSendMessage_Settled(c, aiMessage) ==
    [c EXCEPT !.messages = Append(@, aiMessage), !.loading = FALSE, !.request = Null]

\* the input's onChange
SetInputMessage(value) ==
    /\ page = "ai-chat"
    /\ chat' = [chat EXCEPT !.inputMessage = value]
    /\ UNCHANGED <<clockVars, storeVars, page, analyticsVars, dashboardVars, formVars,
                   ledger, inFlight>>

\* the form's submit (no preset) or a quick question (a preset message)
HandleSendMessage(presetMessage) ==
    /\ page = "ai-chat"
    /\ chat' = handleSendMessage(chat, presetMessage)
    /\ UNCHANGED <<clockVars, storeVars, page, analyticsVars, dashboardVars, formVars,
                   ledger, inFlight>>

\* the request is answered
ChatResponds(result) ==
    /\ page = "ai-chat"
    /\ chat.request # Null
    /\ chat' = handleSendMessage_Settled(chat, AiMessageFor(result))
    /\ UNCHANGED <<clockVars, storeVars, page, analyticsVars, dashboardVars, formVars,
                   ledger, inFlight>>

\* fetch or response.json() throws
ChatThrows ==
    /\ page = "ai-chat"
    /\ chat.request # Null
    /\ chat' = handleSendMessage_Settled(chat, ConnectionErrorMessage)
    /\ UNCHANGED <<clockVars, storeVars, page, analyticsVars, dashboardVars, formVars,
                   ledger, inFlight>>

(***************************************************************************)
(* Dashboard.jsx: fetchDashboardData as the asynchronous function it is.   *)
(* A call reads dateRange as it starts; its responses arrive at any later  *)
(* time and in any order with those of other calls.                        *)
(***************************************************************************)
InitInFlight == inFlight = {}

\* Opening / mounts the dashboard; its effect calls fetchDashboardData.
MountDashboard ==
    /\ page # "dashboard"
    /\ page' = "dashboard"
    /\ dashboardData' = InitialDashboardData(appRange)
    /\ inFlight' = {appRange}
    /\ UNCHANGED <<clockVars, storeVars, analyticsVars, appRange, formVars, ledger, chat>>

\* Leaving / unmounts the dashboard; what its calls set later is dropped.
UnmountDashboard(route) ==
    /\ page = "dashboard"
    /\ page' = route
    /\ dashboardData' = InitialDashboardData(appRange)
    /\ inFlight' = {}
    /\ UNCHANGED <<clockVars, storeVars, analyticsVars, appRange, formVars, ledger, chat>>

\* A header date input changes while the dashboard is mounted; the effect
\* on dateRange calls fetchDashboardData for the new range.
ChangeDashboardRange(name, value) ==
    /\ page = "dashboard"
    /\ appRange' = handleDateChange(appRange, name, value)
    /\ appRange' # appRange
    /\ inFlight' = inFlight \cup {appRange'}
    /\ formData' = [formData EXCEPT !.date = appRange'.endDate]
    /\ procurementFormData' =
           [procurementFormData EXCEPT !.invoice_date = appRange'.endDate]
    /\ UNCHANGED <<clockVars, storeVars, analyticsVars, page, dashboardData,
                   editing, editFormData, requestBody, ledger, chat>>

\* Both responses of one call have arrived: setDashboardData(data).
FetchDashboardDataReturns(dateRange) ==
    /\ page = "dashboard"
    /\ dateRange \in inFlight
    /\ \E hpclOk \in BOOLEAN :
          dashboardData' = AfterFetchDashboardData(dateRange, dashboardData, hpclOk)
    /\ inFlight' = inFlight \ {dateRange}
    /\ UNCHANGED <<clockVars, storeVars, analyticsVars, page, appRange, formVars,
                   ledger, chat>>

(***************************************************************************)
(* Initial states.                                                         *)
(***************************************************************************)
InitResults ==
    /\ businessDay = Null
    /\ nightShift = Null
    /\ businessDayInfo = Null

\* the instant the page is rendered at: any of the sampled clock readings
InitClock ==
    /\ now \in ValidTimestamps
    /\ timezone = 0
    /\ InitResults

InitViews ==
    /\ InitStore
    /\ InitAnalytics
    /\ InitDashboard
    /\ InitForms
    /\ InitLedger
    /\ InitChat
    /\ InitInFlight

SpecBusinessDayInit ==
    /\ InitClock
    /\ page = "dashboard"
    /\ InitViews

SpecBusinessDayNext ==
    \/ GetCurrentBusinessDay
    \/ IsNightShiftTime
    \/ FormatBusinessDayInfo

SpecBusinessDay == SpecBusinessDayInit /\ [][SpecBusinessDayNext]_vars

(***************************************************************************)
(* Analytics over the HPCL outstanding figure: entries that differ in      *)
(* their date and in what they report as total_outstanding.                *)
(***************************************************************************)
\* midday of 2 August 2025
Midday == NewDate(2025, 7, 2, 12, 0)

InitFixedClock ==
    /\ now = Midday
    /\ timezone = 0
    /\ InitResults

SalesSample ==
    [ms_amount |-> 1000, hsd_amount |-> 2000, power_amount |-> 0,
     cash_collections |-> 2500, card_collections |-> 400,
     paytm_collections |-> 0, hp_transactions |-> 0]

OtherSalesSample ==
    [ms_amount |-> 500, hsd_amount |-> 0, power_amount |-> 300,
     cash_collections |-> 100, card_collections |-> 200,
     paytm_collections |-> 300, hp_transactions |-> 400]

\* a negative figure (an advance paid), no report, and two reports
Outstandings == {0 - 100, 0, 5000, 7000}

DailyEntryOf(date, shift, amounts, outstanding) ==
    [date |-> date, shift |-> shift,
     ms_amount |-> amounts.ms_amount, hsd_amount |-> amounts.hsd_amount,
     power_amount |-> amounts.power_amount,
     cash_collections |-> amounts.cash_collections,
     card_collections |-> amounts.card_collections,
     paytm_collections |-> amounts.paytm_collections,
     hp_transactions |-> amounts.hp_transactions,
     total_outstanding |-> outstanding]

HpclEntries ==
    {DailyEntryOf(d, "Day", SalesSample, o) : d \in Dates, o \in Outstandings}

SpecHpclInit ==
    /\ InitFixedClock
    /\ page = "daily-entry"
    /\ InitViews

SpecHpclNext ==
    \/ \E e \in HpclEntries : SubmitDailyEntry(e)
    \/ \E d \in Dates : OpenAnalytics(d)
    \/ \E d \in Dates : SetAnalyticsStart(d)
    \/ \E d \in Dates : SetAnalyticsEnd(d)
    \/ Navigate("daily-entry")

SpecHpcl == SpecHpclInit /\ [][SpecHpclNext]_vars

(***************************************************************************)
(* Analytics over sales, collections and shifts: entries that differ in    *)
(* their date, shift label and amounts, and procurement invoices.          *)
(***************************************************************************)
MaxEntryDate == 2

EntryDates == 1..MaxEntryDate

\* the options of the shift select
ShiftLabels == {"Day", "Night"}

AggregateEntries ==
    {DailyEntryOf(d, sh, a, 0) :
        d \in EntryDates, sh \in ShiftLabels, a \in {SalesSample, OtherSalesSample}}

ProcurementEntries ==
    {[invoice_date |-> d, fuel_type |-> f, quantity |-> 100,
      total_amount |-> IF f = "HSD" THEN 9000 ELSE IF f = "MS" THEN 9500 ELSE 9900] :
        d \in EntryDates, f \in FuelTypes}

SpecAggregateInit ==
    /\ InitFixedClock
    /\ page = "daily-entry"
    /\ InitViews

SpecAggregateNext ==
    \/ \E e \in AggregateEntries : SubmitDailyEntry(e)
    \/ \E e \in ProcurementEntries : SubmitProcurement(e)
    \/ \E d \in Dates : OpenAnalytics(d)
    \/ \E d \in Dates : SetAnalyticsStart(d)
    \/ \E d \in Dates : SetAnalyticsEnd(d)
    \/ \E route \in {"daily-entry", "procurement"} : Navigate(route)

SpecAggregate == SpecAggregateInit /\ [][SpecAggregateNext]_vars

(***************************************************************************)
(* The dashboard over the HPCL outstanding figure.                         *)
(***************************************************************************)
SpecDashboardInit ==
    /\ InitFixedClock
    /\ page = "daily-entry"
    /\ InitViews

SpecDashboardNext ==
    \/ \E e \in HpclEntries : SubmitDailyEntry(e)
    \/ OpenDashboard
    \/ LeaveDashboard("daily-entry")
    \/ \E name \in {"startDate", "endDate"}, d \in Dates : HandleDateChange(name, d)

SpecDashboard == SpecDashboardInit /\ [][SpecDashboardNext]_vars

(***************************************************************************)
(* The entry and edit forms.                                               *)
(***************************************************************************)
SpecFormsInit ==
    /\ InitFixedClock
    /\ page = "daily-entry"
    /\ InitViews

SpecFormsNext ==
    \/ OpenDailyEntry
    \/ OpenProcurement
    \/ OpenAllData
    \/ \E name \in ManagerNames : DailyEntryInputChange("manager", name)
    \/ \E field \in RateFields, value \in RateInputs :
          DailyEntryInputChange(field, value)
    \/ \E field \in QuantityFields, value \in QuantityInputs :
          DailyEntryInputChange(field, value)
    \/ \E value \in TankInputs : DailyEntryInputChange("hsd1_tank", value)
    \/ DailyEntrySubmit
    \/ \E field \in {"invoice_number", "vehicle_number"} :
          ProcurementInputChange(field, "1")
    \/ \E value \in RateInputs : ProcurementInputChange("rate", value)
    \/ \E value \in QuantityInputs : ProcurementInputChange("quantity", value)
    \/ ProcurementSubmit
    \/ \E index \in 1..MaxFormRecords : HandleEditDailyEntry(index)
    \/ \E index \in 1..MaxFormRecords : HandleEditProcurementEntry(index)
    \/ \E field \in QuantityFields \cup {"quantity"}, value \in EditQuantityInputs :
          EditInputChange(field, value)
    \/ \E field \in RateFields \cup {"rate"}, value \in EditRateInputs :
          EditInputChange(field, value)
    \/ \E value \in EditTankInputs : EditInputChange("hsd1_tank", value)
    \/ HandleSaveEdit
    \/ CancelEdit

SpecForms == SpecFormsInit /\ [][SpecFormsNext]_vars

(***************************************************************************)
(* Analytics.jsx over the responses as JSON gives them: a numeric field    *)
(* of a record may be a number, null, a string, or missing.                *)
(***************************************************************************)
\* entry[key]: undefined when the record has no such field
Field(entry, key) == IF key \in DOMAIN entry THEN entry[key] ELSE Undefined

\* a - b
Minus(a, b) ==
    LET x == ToNumber(a)
        y == ToNumber(b)
    IN  IF x.type = "NaN" \/ y.type = "NaN" THEN NaN
        ELSE Number(x.number - y.number)

\* value > 0
IsPositive(value) == ToNumber(value).type = "number" /\ ToNumber(value).number > 0

\* Array.prototype.reduce(f, sum) with the callback's own arithmetic
RECURSIVE ReduceValues(_, _, _)
ReduceValues(f(_, _), seq, sum) ==
    IF seq = <<>> THEN sum ELSE ReduceValues(f, Tail(seq), f(sum, Head(seq)))

\* (sum, entry) => sum + entry.ms_amount + entry.hsd_amount + entry.power_amount
SalesStep(sum, entry) ==
    Plus(Plus(Plus(sum, Field(entry, "ms_amount")), Field(entry, "hsd_amount")),
         Field(entry, "power_amount"))

\* (sum, entry) => sum + entry.cash_collections + entry.card_collections
\*   + entry.paytm_collections + entry.hp_transactions
CollectionsStep(sum, entry) ==
    Plus(Plus(Plus(Plus(sum, Field(entry, "cash_collections")),
                   Field(entry, "card_collections")),
              Field(entry, "paytm_collections")),
         Field(entry, "hp_transactions"))

\* (sum, entry) => sum + entry.total_amount
ProcurementStep(sum, entry) == Plus(sum, Field(entry, "total_amount"))

\* entry => entry.total_outstanding > 0
HasPositiveOutstanding(entry) == IsPositive(Field(entry, "total_outstanding"))

\* the summary of fetchAnalyticsData, computed with JavaScript's operators
JsonSummary(dailyEntries, procurementEntries) ==
    LET totalSales == ReduceValues(SalesStep, dailyEntries, Number(0))
        totalCollections == ReduceValues(CollectionsStep, dailyEntries, Number(0))
        totalProcurement == ReduceValues(ProcurementStep, procurementEntries, Number(0))
        averageVariance ==
            IF Len(dailyEntries) > 0
            THEN Ratio(Minus(totalSales, totalCollections), Len(dailyEntries))
            ELSE Ratio(Number(0), 1)
        entriesWithHPCLCredit ==
            Sort(ByDateDescending, SelectSeq(dailyEntries, HasPositiveOutstanding))
    IN  [totalSales |-> totalSales,
         totalCollections |-> totalCollections,
         totalProcurement |-> totalProcurement,
         averageVariance |-> averageVariance,
         latestHPCLCredit |->
             [amount |-> IF Len(entriesWithHPCLCredit) > 0
                         THEN Field(entriesWithHPCLCredit[1], "total_outstanding")
                         ELSE Number(0),
              date |-> IF Len(entriesWithHPCLCredit) > 0
                       THEN Some(entriesWithHPCLCredit[1].date) ELSE Null]]

\* fetchAnalyticsData with both responses successful: the state it sets
FetchedJsonAnalyticsData(range) ==
    LET dailyEntries == DailyConsolidationQuery(store, range.start, range.end)
        procurementEntries == ProcurementQuery(procurementStore, range.start, range.end)
    IN  [dailyEntries |-> dailyEntries,
         procurementEntries |-> procurementEntries,
         summary |-> JsonSummary(dailyEntries, procurementEntries)]

\* Opening /analytics mounts the component; its effect runs fetchAnalyticsData.
OpenAnalyticsOnJson(sevenDaysAgo) ==
    /\ page # "analytics"
    /\ page' = "analytics"
    /\ analyticsRange' = [start |-> sevenDaysAgo, end |-> appRange.endDate]
    /\ analyticsData' = FetchedJsonAnalyticsData(analyticsRange')
    /\ UNCHANGED <<clockVars, storeVars, dashboardVars, formVars, componentVars>>

\* the From or To input: setDateRange, then the effect runs fetchAnalyticsData
SetAnalyticsRangeOnJson(name, value) ==
    /\ page = "analytics"
    /\ analyticsRange' = [analyticsRange EXCEPT ![name] = value]
    /\ analyticsData' = FetchedJsonAnalyticsData(analyticsRange')
    /\ UNCHANGED <<clockVars, storeVars, page, dashboardVars, formVars, componentVars>>

MaxJsonRecords == 1

\* amounts of one digit, so that the texts JavaScript's + builds of them
\* stay short
SmallSample ==
    [ms_amount |-> 1, hsd_amount |-> 2, power_amount |-> 3,
     cash_collections |-> 2, card_collections |-> 1,
     paytm_collections |-> 0, hp_transactions |-> 0]

\* a record of the daily-consolidation response with its numbers as values
JsonSample(date) == FetchedRecord(DailyEntryOf(date, "Day", SmallSample, 0))

\* the record without one of its fields
Without(record, key) == [k \in DOMAIN record \ {key} |-> record[k]]

\* what a numeric field may hold besides a number: null, the empty string
\* and a text that is no number
LooseValues == {JsNull, EmptyString, String(<<"n", "/", "a">>)}

LooseFields == {"power_amount", "cash_collections"}

\* records that differ from the sample in one field: another value, or the
\* field left out
JsonEntries ==
    {JsonSample(d) : d \in EntryDates}
      \cup {[JsonSample(d) EXCEPT ![f] = v] :
               d \in EntryDates, f \in LooseFields, v \in LooseValues}
      \cup {Without(JsonSample(d), f) : d \in EntryDates, f \in LooseFields}

JsonProcurementEntries ==
    {[invoice_date |-> d, fuel_type |-> "HSD", quantity |-> Number(100),
      rate |-> Number(9), total_amount |-> v] :
        d \in EntryDates, v \in {Number(900)} \cup LooseValues}

SequencesUpTo(S, n) == UNION {[1..k -> S] : k \in 0..n}

SpecJsonRecordsInit ==
    /\ InitFixedClock
    /\ page = "daily-entry"
    /\ InitAnalytics
    /\ InitDashboard
    /\ InitForms
    /\ InitLedger
    /\ InitChat
    /\ InitInFlight
    /\ store \in SequencesUpTo(JsonEntries, MaxJsonRecords)
    /\ procurementStore \in SequencesUpTo(JsonProcurementEntries, MaxJsonRecords)

SpecJsonRecordsNext ==
    \/ \E d \in Dates : OpenAnalyticsOnJson(d)
    \/ \E name \in {"start", "end"}, d \in Dates : SetAnalyticsRangeOnJson(name, d)
    \/ Navigate("daily-entry")

SpecJsonRecords == SpecJsonRecordsInit /\ [][SpecJsonRecordsNext]_vars

(***************************************************************************)
(* Analytics over records whose shift label the forms do not offer.        *)
(***************************************************************************)
\* the two labels the completion check knows, and one it does not
AnyShiftLabels == ShiftLabels \cup {"Evening"}

LabelEntries ==
    {DailyEntryOf(d, sh, SalesSample, 0) : d \in EntryDates, sh \in AnyShiftLabels}

SpecShiftLabelsInit ==
    /\ InitFixedClock
    /\ page = "daily-entry"
    /\ InitAnalytics
    /\ InitDashboard
    /\ InitForms
    /\ InitLedger
    /\ InitChat
    /\ InitInFlight
    /\ store \in SequencesUpTo(LabelEntries, MaxRecords)
    /\ procurementStore = <<>>

SpecShiftLabelsNext ==
    \/ \E d \in Dates : OpenAnalytics(d)
    \/ \E d \in Dates : SetAnalyticsStart(d)
    \/ \E d \in Dates : SetAnalyticsEnd(d)
    \/ Navigate("daily-entry")

SpecShiftLabels == SpecShiftLabelsInit /\ [][SpecShiftLabelsNext]_vars

(***************************************************************************)
(* Properties.                                                             *)
(***************************************************************************)
\* the sum of f over a finite set, whatever the order
RECURSIVE SumSet(_, _)
SumSet(f(_), S) ==
    IF S = {} THEN 0
    ELSE LET x == CHOOSE y \in S : TRUE IN f(x) + SumSet(f, S \ {x})

Indices(seq) == 1..Len(seq)

Shown == analyticsData.dailyEntries
Credit == analyticsData.summary.latestHPCLCredit

\* the shown records dated at or before the range's end that report a
\* positive figure, and those that report any figure but zero
PositiveReports ==
    {i \in Indices(Shown) :
        Shown[i].date <= analyticsRange.end /\ Shown[i].total_outstanding > 0}
NonZeroReports ==
    {i \in Indices(Shown) :
        Shown[i].date <= analyticsRange.end /\ Shown[i].total_outstanding # 0}

IsLatestOf(i, reports) == \A j \in reports : Shown[j].date <= Shown[i].date

StoreReports(target) ==
    {i \in Indices(store) :
        store[i].date <= target /\ store[i].total_outstanding # 0}

DashboardReports == StoreReports(dashboardData.end_date)

IsLatestReport(i) == \A j \in DashboardReports : store[j].date <= store[i].date

\* C2: the dashboard's figure comes from a latest report at or before the
\* end date; when that report is older than the end date it is marked as
\* carried forward and dated with the report's own date; when a record of
\* the end date reports, it is not marked and is dated with the end date.
HpclCarryForwardIsMarked ==
    (page = "dashboard" /\ dashboardData.hpcl_entry_date # Null
       /\ DashboardReports # {}) =>
        \E i \in DashboardReports :
            /\ IsLatestReport(i)
            /\ dashboardData.hpcl_credit_outstanding = store[i].total_outstanding
            /\ dashboardData.hpcl_entry_date = Some(store[i].date)
            /\ dashboardData.hpcl_from_previous_date
                  = (store[i].date < dashboardData.end_date)

\* C2 witness: 5000 reported on day 1, shown for day 3 as carried forward
HpclCarriedForwardReached ==
    /\ page = "dashboard"
    /\ dashboardData.end_date = 3
    /\ dashboardData.hpcl_credit_outstanding = 5000
    /\ dashboardData.hpcl_entry_date = Some(1)
    /\ dashboardData.hpcl_from_previous_date

\* C4: the resolved business day is the clock reading's own calendar date
\* from 08:30:00 on and the previous calendar date before 08:30:00, across
\* month and year boundaries too.
BusinessDayIsOwnOrPreviousDate ==
    businessDay # Null =>
        /\ IsCalendarDate(Val(businessDay))
        /\ IsMidnight(Val(businessDay))
        /\ DayOf(Val(businessDay)) =
              IF MsOfDay(now) >= HalfPastEight THEN DayOf(now) ELSE DayOf(now) - 1

\* C4 witness: 08:29:59 on 1 January resolves into the previous year
BusinessDayPreviousYearReached ==
    /\ businessDay # Null
    /\ now.month = 0 /\ now.date = 1
    /\ now.hours = 8 /\ now.minutes = 29 /\ now.seconds = 59
    /\ Val(businessDay).year = now.year - 1

\* C5: isNightShift is true exactly from 20:30:00 on or before 08:30:00.
NightShiftIsOutsideDayWindow ==
    nightShift # Null =>
        (Val(nightShift) <=>
            (MsOfDay(now) >= HalfPastTwenty \/ MsOfDay(now) < HalfPastEight))

\* C5 witness: 20:30:00 sharp is night shift
NightShiftAtHalfPastTwentyReached ==
    /\ nightShift = Some(TRUE)
    /\ now.hours = 20 /\ now.minutes = 30 /\ now.seconds = 0 /\ now.ms = 0

\* a dd/mm/yyyy date as a day number, and a locale date-time as an instant
LocaleDay(str) == DayNumber(str[3], str[2] - 1, str[1])
LocaleInstant(str) ==
    <<LocaleDay(str[1]),
      ((((str[2][1] % 12) + (IF str[2][4] = "pm" THEN 12 ELSE 0)) * 60
          + str[2][2]) * 60 + str[2][3]) * 1000>>
LabelInstant(dateStr, label) ==
    <<LocaleDay(dateStr), IF label = "8:30 AM" THEN HalfPastEight ELSE HalfPastTwenty>>

Before(a, b) == a[1] < b[1] \/ (a[1] = b[1] /\ a[2] < b[2])
Within(t, from, to) == ~Before(t, from) /\ Before(t, to)
Instant(dt) == <<DayOf(dt), MsOfDay(dt)>>

InBusinessDayOf(t, info) ==
    Within(Instant(t), LocaleInstant(info.startTime), LocaleInstant(info.endTime))

\* the calendar dates around a clock reading
DatesAround(t) ==
    {NewDate(y, m, d, 0, 0) :
        y \in {t.year - 1, t.year, t.year + 1},
        m \in {(t.month + 11) % 12, t.month, (t.month + 1) % 12},
        d \in 1..31} 

NearbyDates(t) ==
    {c \in DatesAround(t) :
        /\ c.date <= DaysInMonth(c.year, c.month)
        /\ DayOf(c) - DayOf(t) \in (0 - 3)..3}

\* C6: the clock reading lies in the window [D 08:30, D+1 08:30) of its
\* business day D and in the window of no other date; it is night shift
\* exactly when it lies in D's night window [D 20:30, D+1 08:30), and then
\* its calendar date is D or D+1, while a day-shift reading has date D.
ReadingLiesInItsBusinessDayOnly ==
    (businessDay # Null /\ nightShift # Null /\ businessDayInfo # Null) =>
        LET D == Val(businessDay)
            info == Val(businessDayInfo)
            night == info.nightShiftPeriod
            day == info.dayShiftPeriod
        IN  /\ LocaleDay(info.businessDate) = DayOf(D)
            /\ LocaleInstant(info.startTime) = <<DayOf(D), HalfPastEight>>
            /\ LocaleInstant(info.endTime) = <<DayOf(D) + 1, HalfPastEight>>
            /\ InBusinessDayOf(now, info)
            /\ \A c \in NearbyDates(now) :
                  InBusinessDayOf(now, formatBusinessDayInfo(c)) => c = D
            /\ Val(nightShift) <=>
                  Within(Instant(now), LabelInstant(night[1], night[2]),
                         LabelInstant(night[3], night[4]))
            /\ ~Val(nightShift) <=>
                  Within(Instant(now), LabelInstant(day[1], day[2]),
                         LabelInstant(day[1], day[3]))
            /\ Val(nightShift) => DayOf(now) \in {DayOf(D), DayOf(D) + 1}
            /\ ~Val(nightShift) => DayOf(now) = DayOf(D)

\* C6 witness: an early-morning reading on the first of a month belongs to
\* the night shift of the last day of the month before
EarlyMorningOfPreviousDayReached ==
    /\ businessDay # Null /\ nightShift # Null /\ businessDayInfo # Null
    /\ now.date = 1 /\ now.hours = 7
    /\ Val(nightShift)
    /\ Val(businessDay).month # now.month
    /\ Val(businessDayInfo).businessDate = ToLocaleDateString(Val(businessDay))


(***************************************************************************)
(* Totals per calendar date.                                               *)
(***************************************************************************)
\* the rows of the date-wise table, and the procurement records shown
Rows == getDateWiseSales(Shown)
Bought == analyticsData.procurementEntries

InRange(d) == analyticsRange.start <= d /\ d <= analyticsRange.end

\* the stored shift records of a date, and the stored invoices of a range
RecordsOn(d) == {i \in Indices(store) : store[i].date = d}
InvoicesInRange == {i \in Indices(procurementStore) : InRange(procurementStore[i].invoice_date)}

SalesOn(d) ==
    SumSet(LAMBDA i : store[i].ms_amount + store[i].hsd_amount + store[i].power_amount,
           RecordsOn(d))

CollectionsOn(d) ==
    SumSet(LAMBDA i : store[i].cash_collections + store[i].card_collections
                        + store[i].paytm_collections + store[i].hp_transactions,
           RecordsOn(d))

VarianceIsSalesMinusCollections ==
    page = "analytics" =>
        \A k \in Indices(Rows) :
            /\ Rows[k].variance = Rows[k].sales - Rows[k].collections
            /\ Rows[k].variance = SalesOn(Rows[k].date) - CollectionsOn(Rows[k].date)
            /\ Rows[k].variance > 0 <=> SalesOn(Rows[k].date) > CollectionsOn(Rows[k].date)
            /\ Rows[k].variance < 0 <=> CollectionsOn(Rows[k].date) > SalesOn(Rows[k].date)

\* two records of a date, one that sold more than it collected and one that
\* collected more, add up to a negative variance
NegativeVarianceOverTwoRecordsReached ==
    /\ page = "analytics"
    /\ \E k \in Indices(Rows) :
          /\ Cardinality(RecordsOn(Rows[k].date)) = 2
          /\ \E i, j \in RecordsOn(Rows[k].date) :
                /\ store[i].ms_amount + store[i].hsd_amount + store[i].power_amount
                     > store[i].cash_collections + store[i].card_collections
                         + store[i].paytm_collections + store[i].hp_transactions
                /\ store[j].ms_amount + store[j].hsd_amount + store[j].power_amount
                     < store[j].cash_collections + store[j].card_collections
                         + store[j].paytm_collections + store[j].hp_transactions
          /\ Rows[k].variance = 0 - 100

(***************************************************************************)
(* Shift completion per calendar date.                                     *)
(***************************************************************************)
\* the shown records of a date that carry a shift label
LabelledOn(d, label) ==
    {i \in Indices(Shown) : Shown[i].date = d /\ Shown[i].shift = label}

\* the status of a date, from the flags getCompletionStatus keeps for it
StatusOn(d) ==
    LET dateStatus == DateStatus(Shown)
    IN  IF HasKey(dateStatus, d)
        THEN LET status == dateStatus[CHOOSE i \in Indices(dateStatus) :
                                          dateStatus[i].date = d]
             IN  completion_status(status.morning, status.night)
        ELSE completion_status(FALSE, FALSE)

\* C9: a date is COMPLETE exactly when it has a Day-labelled and a
\* Night-labelled record, PARTIAL exactly when it has records of exactly one
\* of the two labels, EMPTY exactly when it has neither, however many
\* records of one shift there are; the complete days counted are the dates
\* that have both.
CompletionStatusFollowsShiftLabels ==
    page = "analytics" =>
        /\ \A d \in Dates :
              LET hasDay == LabelledOn(d, "Day") # {}
                  hasNight == LabelledOn(d, "Night") # {}
              IN  /\ StatusOn(d) = "COMPLETE" <=> (hasDay /\ hasNight)
                  /\ StatusOn(d) = "PARTIAL" <=> (hasDay # hasNight)
                  /\ StatusOn(d) = "EMPTY" <=> (~hasDay /\ ~hasNight)
        /\ getCompletionStatus(Shown).completeDays
             = Cardinality({d \in Dates :
                              LabelledOn(d, "Day") # {} /\ LabelledOn(d, "Night") # {}})

\* two Day records of one date leave it PARTIAL
DuplicateShiftStaysPartialReached ==
    /\ page = "analytics"
    /\ \E d \in Dates :
          /\ Cardinality(LabelledOn(d, "Day")) = 2
          /\ StatusOn(d) = "PARTIAL"
          /\ getCompletionStatus(Shown).completeDays = 0

(***************************************************************************)
(* Records that share a date and a shift.                                  *)
(***************************************************************************)
\* the record whose numeric fields are the sums of a's and b's
Merge(a, b) ==
    [a EXCEPT !.ms_amount = @ + b.ms_amount,
              !.hsd_amount = @ + b.hsd_amount,
              !.power_amount = @ + b.power_amount,
              !.cash_collections = @ + b.cash_collections,
              !.card_collections = @ + b.card_collections,
              !.paytm_collections = @ + b.paytm_collections,
              !.hp_transactions = @ + b.hp_transactions,
              !.total_outstanding = @ + b.total_outstanding]

\* the list with its i-th record replaced by the merge of the i-th and the
\* j-th, and the j-th taken out
Merged(seq, i, j) ==
    LET replaced == [seq EXCEPT ![i] = Merge(seq[i], seq[j])]
    IN  SubSeq(replaced, 1, j - 1) \o SubSeq(replaced, j + 1, Len(replaced))

\* C10: two shown records of the same date and shift are summed: the rows
\* (sales, collections, variance), the completion flags and the totals of
\* the list are those of the list that has the single record merge(a, b) in
\* their place.
SameKeyRecordsAreSummed ==
    page = "analytics" =>
        \A i, j \in Indices(Shown) :
            (i < j /\ Shown[i].date = Shown[j].date /\ Shown[i].shift = Shown[j].shift) =>
                LET single == Merged(Shown, i, j)
                IN  /\ getDateWiseSales(single) = Rows
                    /\ DateStatus(single) = DateStatus(Shown)
                    /\ getCompletionStatus(single) = getCompletionStatus(Shown)
                    /\ Summary(single, Bought).totalSales
                         = analyticsData.summary.totalSales
                    /\ Summary(single, Bought).totalCollections
                         = analyticsData.summary.totalCollections

\* two Night records of one date with different amounts are shown as one
\* row holding the sum of both
SameKeyPairSummedReached ==
    /\ page = "analytics"
    /\ \E i, j \in Indices(Shown) :
          /\ i < j
          /\ Shown[i].date = Shown[j].date
          /\ Shown[i].shift = "Night" /\ Shown[j].shift = "Night"
          /\ Shown[i].ms_amount # Shown[j].ms_amount
          /\ \E k \in Indices(Rows) :
                /\ Rows[k].date = Shown[i].date
                /\ Rows[k].sales = Shown[i].ms_amount + Shown[i].hsd_amount
                                     + Shown[i].power_amount + Shown[j].ms_amount
                                     + Shown[j].hsd_amount + Shown[j].power_amount

(***************************************************************************)
(* The average variance.                                                   *)
(***************************************************************************)
\* C11: the average variance is the mean of the rows' variances: their sum
\* divided by the number of days in the table (not by the number of shift
\* records), and 0 when there is none.
AverageVarianceIsMeanOverDays ==
    page = "analytics" =>
        LET average == analyticsData.summary.averageVariance
            total == SumSet(LAMBDA k : Rows[k].variance, Indices(Rows))
        IN  IF Len(Rows) = 0
            THEN average.num = 0
            ELSE average.num * Len(Rows) = total * average.den

(***************************************************************************)
(* Adding a record.                                                        *)
(***************************************************************************)
\* the status of a date among the given entries, from the flags
\* getCompletionStatus keeps for it
StatusOf(entries, d) ==
    LET dateStatus == DateStatus(entries)
    IN  IF HasKey(dateStatus, d)
        THEN LET status == dateStatus[CHOOSE i \in Indices(dateStatus) :
                                          dateStatus[i].date = d]
             IN  completion_status(status.morning, status.night)
        ELSE completion_status(FALSE, FALSE)

\* EMPTY < PARTIAL < COMPLETE
Rank(status) ==
    IF status = "EMPTY" THEN 0 ELSE IF status = "PARTIAL" THEN 1 ELSE 2

\* the row of a date in the date-wise table of the given entries; a date
\* without a row has no sales and no collections
RowOf(entries, d) ==
    LET rows == getDateWiseSales(entries)
    IN  IF \E k \in Indices(rows) : rows[k].date = d
        THEN rows[CHOOSE k \in Indices(rows) : rows[k].date = d]
        ELSE [date |-> d, sales |-> 0, collections |-> 0, variance |-> 0]

\* C12: a record added to the stored records never lowers the completion
\* status of any date and leaves the rows of the other dates as they were;
\* its own date's sales and collections rise by exactly the record's sales
\* and collections; a Night record added to a date that holds only Day
\* records turns the date from PARTIAL to COMPLETE.
AddingARecordOnlyRaisesItsDate ==
    [][(Len(store') = Len(store) + 1) =>
          LET added == store'[Len(store')]
              sales == added.ms_amount + added.hsd_amount + added.power_amount
              collections == added.cash_collections + added.card_collections
                               + added.paytm_collections + added.hp_transactions
          IN  /\ SubSeq(store', 1, Len(store)) = store
              /\ \A d \in Dates :
                    /\ Rank(StatusOf(store', d)) >= Rank(StatusOf(store, d))
                    /\ d # added.date => RowOf(store', d) = RowOf(store, d)
              /\ RowOf(store', added.date).sales
                   = RowOf(store, added.date).sales + sales
              /\ RowOf(store', added.date).collections
                   = RowOf(store, added.date).collections + collections
              /\ (/\ added.shift = "Night"
                  /\ \E i \in Indices(store) : store[i].date = added.date
                  /\ \A i \in Indices(store) :
                        store[i].date = added.date => store[i].shift = "Day")
                    => /\ StatusOf(store, added.date) = "PARTIAL"
                       /\ StatusOf(store', added.date) = "COMPLETE"]_vars

\* a Day record of day 1 (3000 sold, 2900 collected), then a Night record of
\* day 1 (800 sold, 1000 collected): the date is shown COMPLETE with the
\* sums of both
NightAddedToDayOnlyDateReached ==
    /\ page = "analytics"
    /\ Len(store) = 2
    /\ store[1].date = 1 /\ store[1].shift = "Day"
    /\ store[2].date = 1 /\ store[2].shift = "Night"
    /\ StatusOf(<<store[1]>>, 1) = "PARTIAL"
    /\ RowOf(<<store[1]>>, 1).sales = 3000
    /\ RowOf(<<store[1]>>, 1).collections = 2900
    /\ StatusOf(Shown, 1) = "COMPLETE"
    /\ RowOf(Shown, 1).sales = 3800
    /\ RowOf(Shown, 1).collections = 3900

(***************************************************************************)
(* The date range of an aggregation.                                       *)
(***************************************************************************)
\* the stored shift records dated within the range, bounds included
RecordsInRange ==
    {i \in Indices(store) :
        analyticsRange.start <= store[i].date /\ store[i].date <= analyticsRange.end}

\* C13: the aggregation covers exactly the records whose date d satisfies
\* start <= d <= end: the shown entries are those records, the totals are
\* sums over them (a record dated start or end is counted, a record dated
\* outside the range is in no total), and likewise for the invoices.
AggregateCoversExactlyTheRange ==
    page = "analytics" =>
        /\ Len(Shown) = Cardinality(RecordsInRange)
        /\ \A i \in Indices(Shown) : \E j \in RecordsInRange : Shown[i] = store[j]
        /\ \A i \in Indices(store) :
              (store[i].date = analyticsRange.start
                 /\ analyticsRange.start <= analyticsRange.end)
                  => \E k \in Indices(Shown) : Shown[k] = store[i]
        /\ \A i \in Indices(store) :
              (store[i].date = analyticsRange.end
                 /\ analyticsRange.start <= analyticsRange.end)
                  => \E k \in Indices(Shown) : Shown[k] = store[i]
        /\ analyticsData.summary.totalSales
             = SumSet(LAMBDA i : store[i].ms_amount + store[i].hsd_amount
                                   + store[i].power_amount, RecordsInRange)
        /\ analyticsData.summary.totalCollections
             = SumSet(LAMBDA i : store[i].cash_collections + store[i].card_collections
                                   + store[i].paytm_collections
                                   + store[i].hp_transactions, RecordsInRange)
        /\ Len(Bought) = Cardinality(InvoicesInRange)
        /\ analyticsData.summary.totalProcurement
             = SumSet(LAMBDA i : procurementStore[i].total_amount, InvoicesInRange)
        /\ \A k \in Indices(Rows) : InRange(Rows[k].date)

\* a record dated the day before the range's start is left out and a record
\* dated the start itself is counted
RecordBeforeRangeLeftOutReached ==
    /\ page = "analytics"
    /\ analyticsRange.start < analyticsRange.end
    /\ \E i, j \in Indices(store) :
          /\ store[i].date = analyticsRange.start - 1
          /\ store[j].date = analyticsRange.start
          /\ Shown = <<store[j]>>
          /\ analyticsData.summary.totalSales
               = store[j].ms_amount + store[j].hsd_amount + store[j].power_amount
          /\ analyticsData.summary.totalSales > 0

(***************************************************************************)
(* No records at all.                                                      *)
(***************************************************************************)
\* C14: with no shift record and no invoice stored, for any range every
\* aggregate is zero (the totals, the average variance, the completion
\* rate, each a number), the table has no row and every date is EMPTY.
EmptyCollectionsGiveZeroes ==
    (page = "analytics" /\ store = <<>> /\ procurementStore = <<>>) =>
        /\ Shown = <<>> /\ Bought = <<>>
        /\ analyticsData.summary.totalSales = 0
        /\ analyticsData.summary.totalCollections = 0
        /\ analyticsData.summary.totalProcurement = 0
        /\ analyticsData.summary.averageVariance.num = 0
        /\ analyticsData.summary.averageVariance.den # 0
        /\ analyticsData.summary.latestHPCLCredit = [amount |-> 0, date |-> Null]
        /\ getCompletionStatus(Shown).totalDays = 0
        /\ getCompletionStatus(Shown).completeDays = 0
        /\ getCompletionStatus(Shown).completionRate.num = 0
        /\ getCompletionStatus(Shown).completionRate.den # 0
        /\ Rows = <<>>
        /\ \A d \in Dates : StatusOf(Shown, d) = "EMPTY"

\* the analytics page over an empty store and a range of several days
EmptyStoreOverSeveralDaysReached ==
    /\ page = "analytics"
    /\ store = <<>> /\ procurementStore = <<>>
    /\ analyticsRange.start < analyticsRange.end
    /\ analyticsData.summary.totalSales = 0
    /\ getCompletionStatus(Shown).completionRate = Zero

(***************************************************************************)
(* The forms.                                                              *)
(***************************************************************************)
\* the line's amount in a form or a body is its rate times its quantity,
\* an empty or non-numeric rate or quantity taken as 0
AmountIsProduct(data, amount, rate, quantity) ==
    data[amount] = Times(OrZero(parseFloat(data[rate])),
                         OrZero(parseFloat(data[quantity])))

LinesAreProducts(data) ==
    \A line \in Lines :
        AmountIsProduct(data, AmountFieldOf(line), RateFieldOf(line),
                        QuantityFieldOf(line))

TotalIsProduct(data) == AmountIsProduct(data, "total_amount", "rate", "quantity")

IsDailyData(data) == "ms_amount" \in DOMAIN data

\* C19: in every state of the daily-entry form, the edit dialog and the
\* procurement form, and in every body they send, each derived amount
\* (ms, hsd, power; the procurement total_amount) equals the rate times the
\* quantity of its line, an empty rate or quantity taken as 0.
DerivedAmountsAreRateTimesQuantity ==
    /\ page = "daily-entry" => LinesAreProducts(formData)
    /\ page = "procurement" => TotalIsProduct(procurementFormData)
    /\ (page = "all-data" /\ editing.dailyEntry # Null) => LinesAreProducts(editFormData)
    /\ (page = "all-data" /\ editing.procurementEntry # Null) =>
           TotalIsProduct(editFormData)
    /\ requestBody # Null =>
           IF IsDailyData(Val(requestBody)) THEN LinesAreProducts(Val(requestBody))
           ELSE TotalIsProduct(Val(requestBody))

\* a saved edit sends the amount computed again from the edited quantity:
\* rate 2 by quantity 4 after the form's 2 by 3
EditedQuantityRecomputedReached ==
    /\ page = "all-data"
    /\ requestBody # Null
    /\ IsDailyData(Val(requestBody))
    /\ \E line \in Lines :
          /\ Val(requestBody)[RateFieldOf(line)] = Number(2)
          /\ Val(requestBody)[QuantityFieldOf(line)] = Number(4)
          /\ Val(requestBody)[AmountFieldOf(line)] = Number(8)

TankFields == DOMAIN TANK_CAPACITIES

\* C20: every tank level of a shift record that the entry or edit forms
\* send is a volume from 0 up to the tank's capacity.
SubmittedTankLevelsWithinCapacity ==
    (requestBody # Null /\ IsDailyData(Val(requestBody))) =>
        \A tank \in TankFields :
            /\ IsNumber(Val(requestBody)[tank])
            /\ 0 <= Val(requestBody)[tank].number
            /\ Val(requestBody)[tank].number <= TANK_CAPACITIES[tank]

\* the numeric fields of a record that hold a number
ValidNumber(entry, key) ==
    IF key \in DOMAIN entry /\ IsNumber(entry[key]) THEN entry[key].number ELSE 0

SalesFields == {"ms_amount", "hsd_amount", "power_amount"}
CollectionFields ==
    {"cash_collections", "card_collections", "paytm_collections", "hp_transactions"}

\* the sum of the valid values of the fields over the records
SumOfValid(entries, fields) ==
    SumSet(LAMBDA i : SumSet(LAMBDA key : ValidNumber(entries[i], key), fields),
           Indices(entries))

\* C15: a numeric field of a record that is missing, empty or no number
\* counts as 0: the totals over the shown records are numbers, the sums of
\* the valid values.
TotalsTakeInvalidFieldsAsZero ==
    page = "analytics" =>
        /\ analyticsData.summary.totalSales = Number(SumOfValid(Shown, SalesFields))
        /\ analyticsData.summary.totalCollections =
               Number(SumOfValid(Shown, CollectionFields))
        /\ analyticsData.summary.totalProcurement =
               Number(SumOfValid(Bought, {"total_amount"}))

\* C15, the forms: every body the entry and edit forms send carries a
\* number in each numeric field, 0 for an empty input.
SubmittedNumericFieldsAreNumbers ==
    requestBody # Null =>
        \A key \in DOMAIN Val(requestBody) \cap EditNumericFields :
            IsNumber(Val(requestBody)[key])

(***************************************************************************)
(* Unrecognised shift labels.                                              *)
(***************************************************************************)
HasKnownShift(entry) == entry.shift = "Day" \/ entry.shift = "Night"

\* the shown records of a date whose label is neither Day nor Night
UnlabelledOn(d) ==
    {i \in Indices(Shown) : Shown[i].date = d /\ ~HasKnownShift(Shown[i])}

\* C16: a record whose shift label is neither Day nor Night counts in its
\* date's sales, collections and variance, and not in the completeness
\* check: the date's status is what it is without the record, EMPTY when
\* the date has only such records, and such a date is no complete day.
UnknownShiftCountsInTotalsOnly ==
    page = "analytics" =>
        /\ \A d \in Dates :
              UnlabelledOn(d) # {} =>
                 /\ \E k \in Indices(Rows) :
                       /\ Rows[k].date = d
                       /\ Rows[k].sales = SalesOn(d)
                       /\ Rows[k].collections = CollectionsOn(d)
                       /\ Rows[k].variance = SalesOn(d) - CollectionsOn(d)
                 /\ StatusOn(d) = StatusOf(SelectSeq(Shown, HasKnownShift), d)
                 /\ (LabelledOn(d, "Day") = {} /\ LabelledOn(d, "Night") = {})
                       => StatusOn(d) = "EMPTY"
        /\ getCompletionStatus(Shown).completeDays
             = Cardinality({d \in Dates :
                              LabelledOn(d, "Day") # {} /\ LabelledOn(d, "Night") # {}})
        /\ analyticsData.summary.totalSales
             = SumSet(LAMBDA i : EntrySales(Shown[i]), Indices(Shown))

\* a date that holds two Evening records and nothing else: 6000 sold in its
\* row, status EMPTY, one day counted and none complete
OnlyEveningRecordsStayEmptyReached ==
    /\ page = "analytics"
    /\ \E d \in Dates :
          /\ Cardinality(UnlabelledOn(d)) = 2
          /\ \E k \in Indices(Rows) : Rows[k].date = d /\ Rows[k].sales = 6000
          /\ StatusOn(d) = "EMPTY"
          /\ getCompletionStatus(Shown).totalDays = 1
          /\ getCompletionStatus(Shown).completeDays = 0

(***************************************************************************)
(* Inverted date ranges.                                                   *)
(***************************************************************************)
IsInverted(range) == range.end < range.start

\* C17: a date range whose end lies before its start is refused: Analytics
\* never holds the aggregate of an inverted range.
InvertedRangeGivesNoAggregate ==
    page = "analytics" =>
        ~(IsInverted(analyticsRange)
            /\ analyticsData = FetchedAnalyticsData(analyticsRange))

SameMinute(t) ==
    {[t EXCEPT !.seconds = s, !.ms = x] : s \in ClockSeconds, x \in ClockMillis}

\* C21: the business day depends on the calendar date, the hour and the
\* minute of the reading only: readings that differ in their seconds or
\* milliseconds resolve to the same business day.
BusinessDayIgnoresSubMinutePrecision ==
    businessDay # Null =>
        \A t \in SameMinute(now) : getBusinessDayFromDateTime(t) = Val(businessDay)

\* 08:30:59.999 resolves to its own date, as 08:30:00.000 does
LastInstantOfCutoffMinuteReached ==
    /\ businessDay # Null
    /\ now.hours = 8 /\ now.minutes = 30 /\ now.seconds = 59 /\ now.ms = 999
    /\ Val(businessDay) = NewDate(now.year, now.month, now.date, 0, 0)
    /\ getBusinessDayFromDateTime([now EXCEPT !.seconds = 0, !.ms = 0]) = Val(businessDay)

(***************************************************************************)
(* The order of the date-wise table.                                       *)
(***************************************************************************)
\* C22: the date-wise table holds exactly one row for each distinct date
\* of the shown records, and its rows are in strictly ascending order of
\* date, whatever the order of the records.
RowsAreOnePerDateAscending ==
    page = "analytics" =>
        /\ Len(Rows) = Cardinality({Shown[i].date : i \in Indices(Shown)})
        /\ \A i \in Indices(Shown) : \E k \in Indices(Rows) : Rows[k].date = Shown[i].date
        /\ \A k, l \in Indices(Rows) : k < l => Rows[k].date < Rows[l].date

\* the records were stored newest first and the table shows the older date
\* first
NewestFirstRecordsShownAscendingReached ==
    /\ page = "analytics"
    /\ Len(Shown) = 2
    /\ Shown[1].date > Shown[2].date
    /\ Len(Rows) = 2
    /\ Rows[1].date = Shown[2].date
    /\ Rows[2].date = Shown[1].date

(***************************************************************************)
(* The header's date range.                                                *)
(***************************************************************************)
\* a step that sets startDate: endDate follows it when it would lie before
StartDateEntered ==
    appRange'.endDate = IF appRange.endDate < appRange'.startDate
                        THEN appRange'.startDate ELSE appRange.endDate

\* a step that sets endDate: startDate follows it when it would lie after
EndDateEntered ==
    appRange'.startDate = IF appRange'.endDate < appRange.startDate
                          THEN appRange'.endDate ELSE appRange.startDate

\* C24: after any sequence of changes of the header's dates startDate <=
\* endDate holds; a change that would move a bound past the other sets the
\* other bound to the same date and the changed bound is as entered.
HeaderRangeStaysOrdered ==
    /\ [](appRange.startDate <= appRange.endDate)
    /\ [][appRange' # appRange => (StartDateEntered \/ EndDateEntered)]_vars

\* from today's one-day range the start date was entered past the end
\* date, which followed it
EndDateFollowedStartDateReached ==
    /\ appRange.startDate = Today + 1
    /\ appRange.endDate = Today + 1

(***************************************************************************)
(* The dashboard at several clock readings and browser time zones.         *)
(***************************************************************************)
\* 2 August 2025 at the hours and minutes around the cutoff
DashboardClocks ==
    {NewDate(2025, 7, 2, t[1], t[2]) :
        t \in {<<0, 0>>, <<8, 29>>, <<8, 30>>, <<12, 0>>, <<23, 59>>}}

\* minutes east of UTC: New York in winter, UTC, India
BrowserOffsets == {-300, 0, 330}

SpecDashboardClockInit ==
    /\ now \in DashboardClocks
    /\ timezone \in BrowserOffsets
    /\ InitResults
    /\ page = "daily-entry"
    /\ InitViews

SpecDashboardClockNext ==
    \/ OpenDashboard
    \/ LeaveDashboard("daily-entry")
    \/ \E name \in {"startDate", "endDate"}, d \in Dates : HandleDateChange(name, d)

SpecDashboardClock == SpecDashboardClockInit /\ [][SpecDashboardClockNext]_vars

\* the local calendar date of a Date, as an ISO date
LocalDate(dt) == DayOf(dt) - EpochDay

\* C25: on the dashboard, current_business_day is the local calendar date of
\* the business day of now, and is_current_business_day is true exactly when
\* the range's end date is that business day.
DashboardShowsLocalBusinessDay ==
    (page = "dashboard" /\ dashboardData.current_business_day # Null) =>
        LET local == LocalDate(getBusinessDayFromDateTime(now))
        IN  /\ Val(dashboardData.current_business_day) = local
            /\ dashboardData.is_current_business_day = (appRange.endDate = local)

\* C25, the part the code keeps: the HPCL figure shown is the one the HPCL
\* endpoint gives for the range's end date.
HpclLookupIsForEndDate ==
    (page = "dashboard" /\ dashboardData.hpcl_entry_date # Null) =>
        LET hpclResult == HpclDashboardResponse(store, appRange.endDate, TRUE)
        IN  /\ dashboardData.hpcl_credit_outstanding =
                  Val(hpclResult.dashboardData).hpcl_credit_outstanding
            /\ Val(dashboardData.hpcl_entry_date) =
                  HpclEntryDate(hpclResult, appRange.endDate)

\* the dashboard in India, its end date on the local business day
LocalBusinessDayViewedEastOfUtcReached ==
    /\ page = "dashboard"
    /\ timezone > 0
    /\ dashboardData.current_business_day # Null
    /\ appRange.endDate = LocalDate(getBusinessDayFromDateTime(now))

(***************************************************************************)
(* The business-day function embedded in the all-data view.                *)
(***************************************************************************)
\* a >= b for two Dates: the comparison of their time values
NotBefore(a, b) ==
    \/ DayOf(a) > DayOf(b)
    \/ (DayOf(a) = DayOf(b) /\ MsOfDay(a) >= MsOfDay(b))

After(a, b) ==
    \/ DayOf(a) > DayOf(b)
    \/ (DayOf(a) = DayOf(b) /\ MsOfDay(a) > MsOfDay(b))

AllDataView_getBusinessDayFromDateTime_StrictCutoff(currentDateTime) ==
    LET current == currentDateTime
        cutoffToday == NewDate(current.year, current.month, current.date, 8, 30)
    IN  IF After(current, cutoffToday)
        THEN NewDate(current.year, current.month, current.date, 0, 0)
        ELSE LET prevDay == SetDate(current, current.date - 1)
             IN  NewDate(prevDay.year, prevDay.month, prevDay.date, 0, 0)

\* the copy of getBusinessDayFromDateTime in the all-data view: the
\* timestamp against 08:30:00.000 of its own date
AllDataView_getBusinessDayFromDateTime(currentDateTime) ==
    LET current == currentDateTime
        cutoffToday == NewDate(current.year, current.month, current.date, 8, 30)
    IN  IF NotBefore(current, cutoffToday)
        THEN NewDate(current.year, current.month, current.date, 0, 0)
        ELSE LET prevDay == SetDate(current, current.date - 1)
             IN  NewDate(prevDay.year, prevDay.month, prevDay.date, 0, 0)

NaNPercentage == Ratio(0, 0)

\* Math.min(Math.max((currentLevel / capacity) * 100, 0), 100)
ClampedPercentage(level, capacity) ==
    IF level.type = "NaN" THEN NaNPercentage
    ELSE IF level.number * 100 <= 0 THEN Ratio(0, 1)
    ELSE IF level.number * 100 >= 100 * capacity THEN Ratio(100, 1)
    ELSE Ratio(level.number * 100, capacity)

\* the body the three functions share, over the table each of them reads:
\* capacities[tankName] is undefined for a name the table does not have
TankFillPercentage(capacities, currentLevel, tankName) ==
    IF tankName \notin DOMAIN capacities THEN Ratio(0, 1)
    ELSE IF capacities[tankName] = 0 \/ IsFalsy(currentLevel) THEN Ratio(0, 1)
    ELSE ClampedPercentage(ToNumber(currentLevel), capacities[tankName])

\* lib/constants.js
calculateTankFillPercentage(currentLevel, tankName) ==
    TankFillPercentage(TANK_CAPACITIES, currentLevel, tankName)

\* the table embedded in DailyEntry.jsx
DailyEntry_TANK_CAPACITIES == [HSD |-> 15000, MS |-> 15000, XMS |-> 8000, ATF |-> 8000]

DailyEntry_calculateTankFillPercentage(currentLevel, tankName) ==
    TankFillPercentage(DailyEntry_TANK_CAPACITIES, currentLevel, tankName)

\* the table embedded in Analytics.jsx
Analytics_TANK_CAPACITIES == [HSD |-> 15000, MS |-> 15000, XMS |-> 8000, ATF |-> 8000]

Analytics_calculateTankFillPercentage(currentLevel, tankName) ==
    TankFillPercentage(Analytics_TANK_CAPACITIES, currentLevel, tankName)

\* what is typed into a tank level input: nothing, zero, half of the
\* smallest tank, more than the largest tank, a negative level
TankLevelInputs ==
    {EmptyString, String(<<"0">>), String(<<"4", "5", "0", "0">>),
     String(<<"3", "0", "0", "0", "0">>), String(<<"-", "5">>)}

SpecTankLevelsInit ==
    /\ InitFixedClock
    /\ page = "daily-entry"
    /\ InitViews

\* the daily-entry form shows the fill percentage of every tank level as
\* it is typed
SpecTankLevelsNext ==
    \/ OpenProcurement
    \/ OpenDailyEntry
    \/ \E tank \in DOMAIN TANK_CAPACITIES, value \in TankLevelInputs :
          DailyEntryInputChange(tank, value)

SpecTankLevels == SpecTankLevelsInit /\ [][SpecTankLevelsNext]_vars

\* C29: for the five tank names the copies of calculateTankFillPercentage
\* embedded in the daily-entry form and in analytics give what the shared
\* function gives.
EmbeddedTankFillAgreesWithShared ==
    page = "daily-entry" =>
        \A tank \in DOMAIN TANK_CAPACITIES :
            /\ DailyEntry_calculateTankFillPercentage(formData[tank], tank) =
                  calculateTankFillPercentage(formData[tank], tank)
            /\ Analytics_calculateTankFillPercentage(formData[tank], tank) =
                  calculateTankFillPercentage(formData[tank], tank)

\* the shared function is the clamped percentage of the tank's capacity
SharedTankFillIsClampedPercentage ==
    page = "daily-entry" =>
        \A tank \in DOMAIN TANK_CAPACITIES :
            LET level == formData[tank]
                shown == calculateTankFillPercentage(level, tank)
            IN  IF IsFalsy(level) \/ ToNumber(level).number <= 0 THEN shown = Ratio(0, 1)
                ELSE IF ToNumber(level).number >= TANK_CAPACITIES[tank]
                THEN shown = Ratio(100, 1)
                ELSE shown = Ratio(ToNumber(level).number * 100, TANK_CAPACITIES[tank])

\* the copies show an empty tank whatever level is typed
EmbeddedTankFillIsAlwaysZero ==
    page = "daily-entry" =>
        \A tank \in DOMAIN TANK_CAPACITIES :
            /\ DailyEntry_calculateTankFillPercentage(formData[tank], tank) = Ratio(0, 1)
            /\ Analytics_calculateTankFillPercentage(formData[tank], tank) = Ratio(0, 1)

(***************************************************************************)
(* Sales against collections of one record, as each view derives it.      *)
(***************************************************************************)
Sign(x) == IF x > 0 THEN 1 ELSE IF x < 0 THEN 0 - 1 ELSE 0

\* the daily-entry form holding the amounts of a record
FormOf(entry) ==
    [key \in {"ms_amount", "hsd_amount", "power_amount", "cash_collections",
              "card_collections", "paytm_collections", "hp_transactions"} |->
        Number(entry[key])]

\* DailyEntry.calculateTotals: every term is parseFloat(field) || 0
DailyEntry_calculateTotals(data) ==
    LET totalFuelSales ==
            Plus(Plus(OrZero(parseFloat(data.ms_amount)),
                      OrZero(parseFloat(data.hsd_amount))),
                 OrZero(parseFloat(data.power_amount)))
        totalCollections ==
            Plus(Plus(Plus(OrZero(parseFloat(data.cash_collections)),
                           OrZero(parseFloat(data.card_collections))),
                      OrZero(parseFloat(data.paytm_collections))),
                 OrZero(parseFloat(data.hp_transactions)))
    IN  [totalFuelSales |-> totalFuelSales,
         totalCollections |-> totalCollections,
         variance |-> Minus(totalFuelSales, totalCollections)]

\* getDateWiseSales: sales - collections of one entry
Analytics_variance(entry) == EntrySales(entry) - EntryCollections(entry)

\* the all-data table: a row's totalSales - totalCollections
AllDataView_variance(entry) ==
    LET totalSales == entry.ms_amount + entry.hsd_amount + entry.power_amount
        totalCollections ==
            entry.cash_collections + entry.card_collections
              + entry.paytm_collections + entry.hp_transactions
    IN  totalSales - totalCollections

\* calculateCollectionAudit: the totals of one day; x || 0 is x for a number
calculateCollectionAudit(day) ==
    LET totalSales == day.ms_amount + day.hsd_amount + day.power_amount
        totalCollections ==
            day.cash_collections + day.card_collections + day.paytm_collections
    IN  [totalSales |-> totalSales, totalCollections |-> totalCollections]

CollectionAudit_variance(day) ==
    calculateCollectionAudit(day).totalSales - calculateCollectionAudit(day).totalCollections

\* C27: for every record the difference of sales and collections has the
\* same sign in the daily-entry form, analytics, the all-data table and the
\* collection audit, each of which sums cash, card, paytm and
\* hp_transactions into the collections.
ViewsAgreeOnVarianceSign ==
    page = "analytics" =>
        \A i \in Indices(Shown) :
            LET entry == Shown[i]
                form == DailyEntry_calculateTotals(FormOf(entry))
            IN  /\ calculateCollectionAudit(entry).totalCollections =
                      entry.cash_collections + entry.card_collections
                        + entry.paytm_collections + entry.hp_transactions
                /\ Sign(form.variance.number) = Sign(Analytics_variance(entry))
                /\ Sign(AllDataView_variance(entry)) = Sign(Analytics_variance(entry))
                /\ Sign(CollectionAudit_variance(entry)) = Sign(Analytics_variance(entry))

\* the three views other than the audit agree on the difference itself
FormAnalyticsAndTableAgreeOnVariance ==
    page = "analytics" =>
        \A i \in Indices(Shown) :
            /\ DailyEntry_calculateTotals(FormOf(Shown[i])).variance =
                  Number(Analytics_variance(Shown[i]))
            /\ AllDataView_variance(Shown[i]) = Analytics_variance(Shown[i])

(***************************************************************************)
(* The HPCL ledger over three transactions: a shift's collections, a       *)
(* payment to HPCL and a procurement invoice with its vehicle.             *)
(***************************************************************************)
CollectionsTransaction ==
    [date |-> 1, description |-> DailyCollectionsText, debit |-> 0, credit |-> 500,
     total_collections |-> 500, details |-> [vehicle_number |-> <<>>]]

PaymentTransaction ==
    [date |-> 2, description |-> PaymentToHPCLText, debit |-> 0, credit |-> 300,
     total_collections |-> 0, details |-> [vehicle_number |-> <<>>]]

ProcurementTransaction ==
    [date |-> 3, description |-> ProcurementText, debit |-> 900, credit |-> 0,
     total_collections |-> 0, details |-> [vehicle_number |-> <<"K", "A", "0", "1">>]]

\* what the ledger endpoint returns: nothing, or transactions in date order
LedgerLoads ==
    {<<>>, <<CollectionsTransaction>>, <<CollectionsTransaction, PaymentTransaction>>,
     <<PaymentTransaction, ProcurementTransaction>>,
     <<CollectionsTransaction, PaymentTransaction, ProcurementTransaction>>}

\* a term of the payment's description, one of the vehicle number, and one
\* that nothing has
SearchTerms == {<<>>, <<"h", "p", "c", "l">>, <<"k", "a", "0">>, <<"z", "z">>}
TypeFilters == {"all", "collections", "payments", "procurement"}
AmountBounds == {EmptyString, String(<<"4", "0", "0">>), String(<<"6", "0", "0">>)}
DateBounds == {Null, Some(2)}

SpecLedgerInit ==
    /\ InitFixedClock
    /\ page = "daily-entry"
    /\ InitViews

SpecLedgerNext ==
    \/ OpenHpclLedger
    \/ OpenDailyEntry
    \/ \E transactions \in LedgerLoads : LedgerLoaded(transactions)
    \/ \E value \in SearchTerms : SetSearchTerm(value)
    \/ \E value \in TypeFilters : SetTypeFilter(value)
    \/ \E bound \in {"min", "max"}, value \in AmountBounds : SetAmountFilter(bound, value)
    \/ \E bound \in {"start", "end"}, value \in DateBounds : SetDateFilter(bound, value)
    \/ ClearFilters

SpecLedger == SpecLedgerInit /\ [][SpecLedgerNext]_vars

\* the loaded transactions that pass every active filter
Passing == {i \in Indices(ledger.ledgerData) : PassesFilters(ledger.ledgerData[i], ledger)}

hasActiveFilters ==
    \/ ledger.searchTerm # <<>>
    \/ ledger.typeFilter # "all"
    \/ ~IsFalsy(ledger.amountFilter.min)
    \/ ~IsFalsy(ledger.amountFilter.max)
    \/ ledger.dateFilter.start # Null
    \/ ledger.dateFilter.end # Null

\* the sum of a field over the passing transactions
RECURSIVE SumOverPassing(_, _)
SumOverPassing(field, indices) ==
    IF indices = {} THEN 0
    ELSE LET i == CHOOSE j \in indices : TRUE
         IN  ledger.ledgerData[i][field] + SumOverPassing(field, indices \ {i})

\* C26: the totals the ledger shows are the sums and the count over exactly
\* the loaded transactions that pass all active filters: over all of them
\* when no filter is active, all zero when no transaction passes.
LedgerTotalsAreOverPassingTransactions ==
    page = "hpcl-ledger" =>
        /\ calculateFilteredTotals(ledger).totalDebit = SumOverPassing("debit", Passing)
        /\ calculateFilteredTotals(ledger).totalCredit = SumOverPassing("credit", Passing)
        /\ calculateFilteredTotals(ledger).totalCollections =
              SumOverPassing("total_collections", Passing)
        /\ calculateFilteredTotals(ledger).count = Cardinality(Passing)

\* the rows the ledger lists are exactly the passing transactions, and the
\* totals are theirs whenever there is one
LedgerTotalsAreOverPassingWhenAnyPasses ==
    page = "hpcl-ledger" =>
        /\ Len(ledger.filteredData) = Cardinality(Passing)
        /\ \A i \in Passing :
              \E k \in Indices(ledger.filteredData) :
                  ledger.filteredData[k] = ledger.ledgerData[i]
        /\ (Passing # {} \/ ~hasActiveFilters) =>
              /\ calculateFilteredTotals(ledger).totalDebit =
                    SumOverPassing("debit", Passing)
              /\ calculateFilteredTotals(ledger).totalCredit =
                    SumOverPassing("credit", Passing)
              /\ calculateFilteredTotals(ledger).totalCollections =
                    SumOverPassing("total_collections", Passing)
              /\ calculateFilteredTotals(ledger).count = Cardinality(Passing)

\* filters that nothing passes, over a loaded ledger
NoTransactionPassesReached ==
    /\ page = "hpcl-ledger"
    /\ ledger.ledgerData # <<>>
    /\ hasActiveFilters
    /\ Passing = {}

(***************************************************************************)
(* The dashboard with its requests in flight.                              *)
(***************************************************************************)
MaxInFlight == 2

SpecDashboardRaceInit ==
    /\ InitFixedClock
    /\ page = "daily-entry"
    /\ InitViews

SpecDashboardRaceNext ==
    \/ \E e \in HpclEntries : SubmitDailyEntry(e)
    \/ MountDashboard
    \/ UnmountDashboard("daily-entry")
    \/ \E name \in {"startDate", "endDate"}, d \in Dates :
          Cardinality(inFlight) < MaxInFlight /\ ChangeDashboardRange(name, d)
    \/ \E dateRange \in inFlight : FetchDashboardDataReturns(dateRange)

SpecDashboardRace == SpecDashboardRaceInit /\ [][SpecDashboardRaceNext]_vars

\* C23: once no call of fetchDashboardData is awaiting a response, the
\* dashboard shows what was fetched for the range selected last.
SettledDashboardShowsSelectedRange ==
    (page = "dashboard" /\ inFlight = {}) =>
        /\ dashboardData.start_date = appRange.startDate
        /\ dashboardData.end_date = appRange.endDate

\* the response for an earlier range arrived last
StaleResponseShownReached ==
    /\ page = "dashboard"
    /\ inFlight = {}
    /\ dashboardData.current_business_day # Null
    /\ dashboardData.end_date # appRange.endDate

(***************************************************************************)
(* The AI chat, mounted: messages are typed or picked from the quick       *)
(* questions and sent; the request to the AI service is answered or        *)
(* throws.                                                                 *)
(***************************************************************************)
MaxMessages == 5

\* what the input holds: nothing, a space, a question, a question in spaces
ChatInputs == {<<>>, <<" ">>, <<"h", "i">>, <<" ", "h", "i", " ">>}

\* no preset (the form's submit) or a quick question
PresetMessages == {<<>>, <<"q">>}

SpecChatInit ==
    /\ InitFixedClock
    /\ page = "ai-chat"
    /\ InitViews

\* the request settles: fetch resolves and the body parses, or either throws
ChatSettles ==
    \/ \E result \in ChatResults : ChatResponds(result)
    \/ ChatThrows

SpecChatNext ==
    \/ \E value \in ChatInputs : SetInputMessage(value)
    \/ \E presetMessage \in PresetMessages :
          Len(chat.messages) < MaxMessages /\ HandleSendMessage(presetMessage)
    \/ ChatSettles

SpecChat == SpecChatInit /\ [][SpecChatNext]_vars

\* a request that was sent settles
SpecChatFair == SpecChat /\ WF_vars(ChatSettles)

LastMessage == chat.messages[Len(chat.messages)]

\* loading is set exactly while one request is in flight; a user message is
\* never empty, is followed by exactly one AI message once its request has
\* settled, and is the last message exactly while its request is in flight
ChatIsConsistent ==
    /\ chat.loading <=> chat.request # Null
    /\ chat.loading <=> LastMessage.type = "user"
    /\ chat.loading => Val(chat.request) = LastMessage.content
    /\ \A i \in Indices(chat.messages) :
          chat.messages[i].type = "user" =>
              /\ chat.messages[i].content # <<>>
              /\ Trim(chat.messages[i].content) = chat.messages[i].content
              /\ i < Len(chat.messages) => chat.messages[i + 1].type = "ai"
              /\ i + 1 < Len(chat.messages) => chat.messages[i + 2].type = "user"

\* while a request is in flight a send adds nothing: the only message that
\* arrives is the AI message that ends the loading
SendIgnoredWhileLoading ==
    chat.loading =>
        \/ chat'.messages = chat.messages /\ chat'.loading
        \/ /\ Len(chat'.messages) = Len(chat.messages) + 1
           /\ chat'.messages[Len(chat'.messages)].type = "ai"
           /\ ~chat'.loading

\* a send of an empty or blank message changes nothing
EmptySendIgnored ==
    (~chat.loading /\ Len(chat'.messages) > Len(chat.messages)) =>
        /\ chat'.messages[Len(chat'.messages)].type = "user"
        /\ chat'.messages[Len(chat'.messages)].content # <<>>
        /\ chat'.loading

\* C30: a send is ignored when the message is empty or a request is in
\* flight, so at most one request is outstanding; every accepted user
\* message is eventually followed by exactly one AI message, the answer or
\* an error text, and loading is false after it.
EveryAcceptedMessageIsAnswered ==
    /\ []ChatIsConsistent
    /\ [][SendIgnoredWhileLoading /\ EmptySendIgnored]_vars
    /\ \A n \in 1..MaxMessages :
          (chat.loading /\ Len(chat.messages) = n)
              ~> (~chat.loading /\ Len(chat.messages) = n + 1
                    /\ LastMessage.type = "ai")

\* a request that threw was answered with the error text, and the next
\* message was accepted after it
ThrownRequestAnsweredReached ==
    /\ Len(chat.messages) >= 4
    /\ chat.messages[2].type = "user"
    /\ chat.messages[3] = ConnectionErrorMessage
    /\ chat.messages[4].type = "user"
    /\ chat.loading

====
